---- MODULE Spec2Model ----
(***************************************************************************)
(* A model of library/runit_sv.py: the three record kinds (FileRecord,     *)
(* LinkRecord, RemoveThing), the helpers they use, and _main, which builds *)
(* the records of one service, validates them, detects what must change    *)
(* and commits.  The filesystem is a function from existing paths to the   *)
(* entries at them; a path is the sequence of its components.              *)
(***************************************************************************)
EXTENDS Integers, Sequences, FiniteSets, TLC

----------------------------------------------------------------------------
(* Bounds of the model. *)

\* The number of runs of the module in one behaviour.
MaxRuns == 2
\* The number of changes between runs: edits of a parameter plus outside
\* modifications of the tree.
MaxChanges == 2
\* The number of outside modifications of the tree among those changes.
MaxOutside == 1
\* The number of symbolic links one path resolution follows before ELOOP.
MaxFollow == 3

----------------------------------------------------------------------------
(* Modes.  st_mode is the file type (bits 12 and up) plus the permission   *)
(* bits; the numbers are those of Python's stat module.                    *)

EXECUTABLE == 511
NONEXECUTABLE == 438
SETTABLE_MASK == 4095

S_IFDIR == 4 * 4096
S_IFREG == 8 * 4096
S_IFLNK == 10 * 4096

RECURSIVE BitAnd(_, _)
BitAnd(a, b) ==
    IF a = 0 \/ b = 0 THEN 0
    ELSE (a % 2) * (b % 2) + 2 * BitAnd(a \div 2, b \div 2)

\* ~m of a non-negative m, on the 12 bits a permission mask can keep.
BitNot(m) == SETTABLE_MASK - (m % (SETTABLE_MASK + 1))

S_IFMT(m) == (m \div 4096) * 4096
S_ISDIR(m) == S_IFMT(m) = S_IFDIR
S_ISREG(m) == S_IFMT(m) = S_IFREG
S_ISLNK(m) == S_IFMT(m) = S_IFLNK

settable_mode(m) == BitAnd(m, SETTABLE_MASK)

----------------------------------------------------------------------------
(* Entries of the filesystem. *)

NoTarget == <<>>
DirEntry == [m |-> S_IFDIR + 493, c |-> "", t |-> NoTarget]
FileEntry(c, perm) == [m |-> S_IFREG + perm, c |-> c, t |-> NoTarget]
LinkEntry(t) == [m |-> S_IFLNK + 511, c |-> "", t |-> t]

Dirname(p) == SubSeq(p, 1, Len(p) - 1)
Basename(p) == p[Len(p)]
IsPrefix(d, p) == Len(d) <= Len(p) /\ SubSeq(p, 1, Len(d)) = d
\* os.path.join of an absolute path and relative names.
Join(a, b) == a \o b

Children(fs, d) == {p \in DOMAIN fs : Len(p) = Len(d) + 1 /\ IsPrefix(d, p)}
Without(fs, ps) == [p \in DOMAIN fs \ ps |-> fs[p]]
With(fs, p, e) == [q \in DOMAIN fs \cup {p} |-> IF q = p THEN e ELSE fs[q]]
Subtree(fs, d) == {p \in DOMAIN fs : IsPrefix(d, p)}

\* Path resolution: the canonical path of p, following the symbolic links
\* of its directory components and, with follow, of its last component.
\* WalkIn resolves one name in the resolved parent par.
RECURSIVE Walk(_, _, _, _)
RECURSIVE WalkIn(_, _, _, _, _)
Walk(fs, p, follow, fuel) ==
    IF p = <<>> THEN [e |-> "OK", p |-> <<>>]
    ELSE WalkIn(fs, Walk(fs, Dirname(p), TRUE, fuel), Basename(p), follow, fuel)

WalkIn(fs, par, name, follow, fuel) ==
    IF par.e # "OK" THEN par
    ELSE IF par.p # <<>> /\ ~S_ISDIR(fs[par.p].m)
         THEN [e |-> "ENOTDIR", p |-> par.p]
    ELSE IF par.p \o <<name>> \notin DOMAIN fs
         THEN [e |-> "ENOENT", p |-> par.p \o <<name>>]
    ELSE IF S_ISLNK(fs[par.p \o <<name>>].m) /\ follow
         THEN IF fuel = 0 THEN [e |-> "ELOOP", p |-> par.p \o <<name>>]
              ELSE Walk(fs, fs[par.p \o <<name>>].t, TRUE, fuel - 1)
    ELSE [e |-> "OK", p |-> par.p \o <<name>>]

ModeAt(fs, q) == IF q = <<>> THEN DirEntry.m ELSE fs[q].m

\* os.lstat and os.stat: the errno and, without error, st_mode.
StatOf(fs, w) == [e |-> w.e, m |-> IF w.e = "OK" THEN ModeAt(fs, w.p) ELSE 0]
lstat(fs, p) == StatOf(fs, Walk(fs, p, FALSE, MaxFollow))
stat(fs, p) == StatOf(fs, Walk(fs, p, TRUE, MaxFollow))

\* os.path.exists and os.path.isdir: stat, any error read as False.
exists(fs, p) == Walk(fs, p, TRUE, MaxFollow).e = "OK"
IsDirOf(s) == s.e = "OK" /\ S_ISDIR(s.m)
isdir(fs, p) == IsDirOf(stat(fs, p))

\* os.readlink: EINVAL for an entry that is no symbolic link.
ReadlinkOf(fs, w) ==
    IF w.e # "OK" THEN [e |-> w.e, t |-> NoTarget]
    ELSE IF ~S_ISLNK(ModeAt(fs, w.p)) THEN [e |-> "EINVAL", t |-> NoTarget]
    ELSE [e |-> "OK", t |-> fs[w.p].t]
readlink(fs, p) == ReadlinkOf(fs, Walk(fs, p, FALSE, MaxFollow))

\* os.listdir: the names in a directory, symbolic links followed.
ListdirOf(fs, w) ==
    IF w.e # "OK" THEN [e |-> w.e, names |-> {}]
    ELSE IF ~S_ISDIR(ModeAt(fs, w.p)) THEN [e |-> "ENOTDIR", names |-> {}]
    ELSE [e |-> "OK", names |-> {Basename(q) : q \in Children(fs, w.p)}]
listdir(fs, p) == ListdirOf(fs, Walk(fs, p, TRUE, MaxFollow))

\* os.unlink: removes a file or a symbolic link, never a directory.
UnlinkOf(fs, w) ==
    IF w.e # "OK" THEN [e |-> w.e, fs |-> fs]
    ELSE IF S_ISDIR(ModeAt(fs, w.p)) THEN [e |-> "EISDIR", fs |-> fs]
    ELSE [e |-> "OK", fs |-> Without(fs, {w.p})]
unlink(fs, p) == UnlinkOf(fs, Walk(fs, p, FALSE, MaxFollow))

\* The place a new entry at p would take: its canonical parent directory
\* plus its name.  e is "OK" when something is there, "FREE" when nothing
\* is, else the errno of resolving the parent.
SlotOf(fs, par, name) ==
    IF par.e # "OK" THEN [e |-> par.e, p |-> par.p]
    ELSE IF ~S_ISDIR(ModeAt(fs, par.p)) THEN [e |-> "ENOTDIR", p |-> par.p]
    ELSE [e |-> IF par.p \o <<name>> \in DOMAIN fs THEN "OK" ELSE "FREE",
          p |-> par.p \o <<name>>]
Slot(fs, p) == SlotOf(fs, Walk(fs, Dirname(p), TRUE, MaxFollow), Basename(p))

\* os.mkdir.
MkdirOf(fs, s) ==
    IF s.e = "OK" THEN [e |-> "EEXIST", fs |-> fs]
    ELSE IF s.e = "FREE" THEN [e |-> "OK", fs |-> With(fs, s.p, DirEntry)]
    ELSE [e |-> s.e, fs |-> fs]
mkdir(fs, p) == MkdirOf(fs, Slot(fs, p))

\* os.symlink(target, p).
SymlinkOf(fs, t, s) ==
    IF s.e = "OK" THEN [e |-> "EEXIST", fs |-> fs]
    ELSE IF s.e = "FREE" THEN [e |-> "OK", fs |-> With(fs, s.p, LinkEntry(t))]
    ELSE [e |-> s.e, fs |-> fs]
symlink(fs, t, p) == SymlinkOf(fs, t, Slot(fs, p))

\* os.chmod: follows symbolic links, keeps the file type.
ChmodOf(fs, w, mode) ==
    IF w.e # "OK" THEN [e |-> w.e, fs |-> fs]
    ELSE IF w.p = <<>> THEN [e |-> "EPERM", fs |-> fs]
    ELSE [e |-> "OK",
          fs |-> [fs EXCEPT ![w.p].m = S_IFMT(@) + BitAnd(mode, SETTABLE_MASK)]]
chmod(fs, p, mode) == ChmodOf(fs, Walk(fs, p, TRUE, MaxFollow), mode)

\* os.rename of a file src over dst: replaces a file or a symbolic link,
\* never a directory.
RenameOf(fs, s, d) ==
    IF s.e # "OK" THEN [e |-> s.e, fs |-> fs]
    ELSE IF d.e \notin {"OK", "FREE"} THEN [e |-> d.e, fs |-> fs]
    ELSE IF d.e = "OK" /\ S_ISDIR(fs[d.p].m) THEN [e |-> "EISDIR", fs |-> fs]
    ELSE IF d.p = s.p THEN [e |-> "OK", fs |-> fs]
    ELSE [e |-> "OK", fs |-> With(Without(fs, {s.p}), d.p, fs[s.p])]
rename(fs, src, dst) ==
    RenameOf(fs, Walk(fs, src, FALSE, MaxFollow), Slot(fs, dst))

\* os.makedirs (Python 2): the missing ancestors first, an EEXIST among
\* them ignored, then mkdir of the path itself.
RECURSIVE makedirs(_, _)
MakedirsOf(pre, name) ==
    IF pre.e \notin {"OK", "EEXIST"} THEN pre ELSE mkdir(pre.fs, name)
makedirs(fs, name) ==
    MakedirsOf(IF Dirname(name) # <<>> /\ ~exists(fs, Dirname(name))
               THEN makedirs(fs, Dirname(name))
               ELSE [e |-> "OK", fs |-> fs],
               name)

\* shutil.rmtree (Python 2) with the default onerror, which raises: refuses
\* a symbolic link, lists the directory, removes everything below it and it.
RmtreeOf(fs, l, ls, w) ==
    IF l.e = "OK" /\ S_ISLNK(l.m) THEN [e |-> "ELINK", fs |-> fs]
    ELSE IF ls.e # "OK" THEN [e |-> ls.e, fs |-> fs]
    ELSE IF w.p = <<>> THEN [e |-> "EBUSY", fs |-> fs]
    ELSE [e |-> "OK", fs |-> Without(fs, Subtree(fs, w.p))]
rmtree(fs, p) ==
    RmtreeOf(fs, lstat(fs, p), listdir(fs, p), Walk(fs, p, TRUE, MaxFollow))

\* tempfile.NamedTemporaryFile(dir=outdir, prefix='.tmp', suffix='~',
\* delete=False): a new empty file of mode 0600 under a name not in use.
TempName(n) == ".tmp" \o ToString(n) \o "~"
FreeTemp(fs, dir) ==
    CHOOSE i \in 1..(Cardinality(DOMAIN fs) + 1) :
        /\ dir \o <<TempName(i)>> \notin DOMAIN fs
        /\ \A j \in 1..(i - 1) : dir \o <<TempName(j)>> \in DOMAIN fs
TempOf(fs, outdir, s, n) ==
    IF s.e \notin {"OK", "FREE"} THEN [e |-> s.e, fs |-> fs, name |-> <<>>]
    ELSE [e |-> "OK",
          fs |-> With(fs, Dirname(s.p) \o <<TempName(n)>>, FileEntry("", 384)),
          name |-> outdir \o <<TempName(n)>>]
TempIn(fs, outdir, s) ==
    TempOf(fs, outdir, s,
           IF s.e \in {"OK", "FREE"} THEN FreeTemp(fs, Dirname(s.p)) ELSE 0)
NamedTemporaryFile(fs, outdir) ==
    TempIn(fs, outdir, Slot(fs, outdir \o <<TempName(1)>>))

\* outfile.write(content) on the open temporary file.
WriteOf(fs, w, content) == [e |-> "OK", fs |-> [fs EXCEPT ![w.p].c = content]]
write(fs, p, content) == WriteOf(fs, Walk(fs, p, FALSE, MaxFollow), content)

\* hashlib.sha256(...).hexdigest(): equal digests exactly for equal bytes.
sha256(content) == "sha256:" \o content

----------------------------------------------------------------------------
(* The helpers of runit_sv.py. *)

\* first_directory: the first candidate that lstat shows to be a directory;
\* d is <<>> for None, e the errno of an lstat error other than ENOENT.
RECURSIVE first_directory(_, _)
FirstOf_Followed(fs, directories, s) ==
    IF s.e \notin {"OK", "ENOENT"} THEN [e |-> s.e, d |-> <<>>]
    ELSE IF s.e = "OK" /\ isdir(fs, Head(directories))
    THEN [e |-> "OK", d |-> Head(directories)]
    ELSE first_directory(fs, Tail(directories))
FirstOf(fs, directories, s) ==
    IF s.e \notin {"OK", "ENOENT"} THEN [e |-> s.e, d |-> <<>>]
    ELSE IF s.e = "OK" /\ S_ISDIR(s.m) THEN [e |-> "OK", d |-> Head(directories)]
    ELSE first_directory(fs, Tail(directories))
first_directory(fs, directories) ==
    IF directories = <<>> THEN [e |-> "OK", d |-> <<>>]
    ELSE FirstOf(fs, directories, lstat(fs, Head(directories)))

\* hash_file: (None, None) for a missing file, else the digest and st_mode.
HashOf(fs, w) ==
    IF w.e = "ENOENT" THEN [e |-> "OK", none |-> TRUE, hash |-> "", mode |-> 0]
    ELSE IF w.e # "OK" THEN [e |-> w.e, none |-> TRUE, hash |-> "", mode |-> 0]
    ELSE IF S_ISDIR(ModeAt(fs, w.p))
         THEN [e |-> "EISDIR", none |-> TRUE, hash |-> "", mode |-> 0]
    ELSE [e |-> "OK", none |-> FALSE, hash |-> sha256(fs[w.p].c), mode |-> fs[w.p].m]
hash_file(fs, path) == HashOf(fs, Walk(fs, path, TRUE, MaxFollow))

ExistOk_All(r) == [e |-> "OK", fs |-> r.fs]
ExistOk(r) == IF r.e = "EEXIST" THEN [e |-> "OK", fs |-> r.fs] ELSE r
makedirs_exist_ok(fs, path) == ExistOk(makedirs(fs, path))

----------------------------------------------------------------------------
(* The records.  A record of any kind has the fields of all three kinds;   *)
(* those its kind does not use keep a fixed value.                         *)

\* FileRecord.content: None, True or the bytes.
ContentNone == [tag |-> "None", b |-> ""]
ContentTrue == [tag |-> "True", b |-> ""]
Bytes(b) == [tag |-> "Bytes", b |-> b]

FileRecord(path, mode, content) ==
    [kind |-> "FileRecord", path |-> path, mode |-> mode, content |-> content,
     target |-> NoTarget, dir_ok |-> FALSE, stat_type |-> "",
     must_change |-> FALSE, changed |-> FALSE]

LinkRecord(path, target, dir_ok) ==
    [kind |-> "LinkRecord", path |-> path, mode |-> 0, content |-> ContentNone,
     target |-> target, dir_ok |-> dir_ok, stat_type |-> "",
     must_change |-> FALSE, changed |-> FALSE]

RemoveThing(path, stat_type) ==
    [kind |-> "RemoveThing", path |-> path, mode |-> 0, content |-> ContentNone,
     target |-> NoTarget, dir_ok |-> FALSE, stat_type |-> stat_type,
     must_change |-> FALSE, changed |-> FALSE]

rm(path) == RemoveThing(path, "S_ISREG")
rmdir(path) == RemoveThing(path, "S_ISDIR")

\* _must_change_p of each kind: e is "OK" and v the answer, or e names the
\* exception raised.
FileMustChange_ContentOnly(r, h) ==
    IF h.e # "OK" THEN [e |-> h.e, v |-> FALSE]
    ELSE IF h.none THEN [e |-> "OK", v |-> r.content.tag # "None"]
    ELSE IF r.content.tag = "None" THEN [e |-> "OK", v |-> TRUE]
    ELSE [e |-> "OK",
          v |-> ~(IF r.content.tag = "True" THEN r.mode = settable_mode(h.mode)
                  ELSE sha256(r.content.b) = h.hash)]
FileMustChange(r, h) ==
    IF h.e # "OK" THEN [e |-> h.e, v |-> FALSE]
    ELSE IF h.none THEN [e |-> "OK", v |-> r.content.tag # "None"]
    ELSE IF r.content.tag = "None" THEN [e |-> "OK", v |-> TRUE]
    ELSE [e |-> "OK",
          v |-> \/ ~(IF r.content.tag = "True" THEN TRUE
                     ELSE sha256(r.content.b) = h.hash)
                \/ r.mode # settable_mode(h.mode)]
FileRecord_must_change_p(fs, r) == FileMustChange(r, hash_file(fs, r.path))

\* LinkMustChange without the tolerance of a directory (dir_ok, line 152).
LinkMustChange_NoDirOk(fs, r, l) ==
    IF l.e = "ENOENT" THEN [e |-> "OK", v |-> r.target # NoTarget]
    ELSE IF l.e = "EINVAL" THEN [e |-> "PathAlreadyExistsError", v |-> FALSE]
    ELSE IF l.e # "OK" THEN [e |-> l.e, v |-> FALSE]
    ELSE [e |-> "OK", v |-> r.target # l.t]

\* LinkMustChange taking whatever is at the path for something to replace,
\* where lines 152-155 raise.
LinkMustChange_Replaces(fs, r, l) ==
    IF l.e = "ENOENT" THEN [e |-> "OK", v |-> r.target # NoTarget]
    ELSE IF l.e = "EINVAL"
         THEN IF r.dir_ok /\ isdir(fs, r.path) THEN [e |-> "OK", v |-> FALSE]
              ELSE [e |-> "OK", v |-> TRUE]
    ELSE IF l.e # "OK" THEN [e |-> l.e, v |-> FALSE]
    ELSE [e |-> "OK", v |-> r.target # l.t]

LinkMustChange(fs, r, l) ==
    IF l.e = "ENOENT" THEN [e |-> "OK", v |-> r.target # NoTarget]
    ELSE IF l.e = "EINVAL"
         THEN IF r.dir_ok /\ isdir(fs, r.path) THEN [e |-> "OK", v |-> FALSE]
              ELSE [e |-> "PathAlreadyExistsError", v |-> FALSE]
    ELSE IF l.e # "OK" THEN [e |-> l.e, v |-> FALSE]
    ELSE [e |-> "OK", v |-> r.target # l.t]
LinkRecord_must_change_p(fs, r) == LinkMustChange(fs, r, readlink(fs, r.path))

StatTypeMatches_Links(stat_type, m) ==
    IF stat_type = "S_ISREG" THEN S_ISREG(m) \/ S_ISLNK(m) ELSE S_ISDIR(m)
StatTypeMatches(stat_type, m) ==
    IF stat_type = "S_ISREG" THEN S_ISREG(m) ELSE S_ISDIR(m)

\* RemoveMustChange taking an entry of any kind for one to remove.
RemoveMustChange_Any(r, s) ==
    IF s.e = "ENOENT" THEN [e |-> "OK", v |-> FALSE]
    ELSE IF s.e # "OK" THEN [e |-> s.e, v |-> FALSE]
    ELSE [e |-> "OK", v |-> TRUE]
RemoveMustChange(r, s) ==
    IF s.e = "ENOENT" THEN [e |-> "OK", v |-> FALSE]
    ELSE IF s.e # "OK" THEN [e |-> s.e, v |-> FALSE]
    ELSE IF ~StatTypeMatches(r.stat_type, s.m)
         THEN [e |-> "NotAThingError", v |-> FALSE]
    ELSE [e |-> "OK", v |-> TRUE]
RemoveThing_must_change_p(fs, r) == RemoveMustChange(r, lstat(fs, r.path))

must_change_p(fs, r) ==
    IF r.kind = "FileRecord" THEN FileRecord_must_change_p(fs, r)
    ELSE IF r.kind = "LinkRecord" THEN LinkRecord_must_change_p(fs, r)
    ELSE RemoveThing_must_change_p(fs, r)

\* commit of each kind: the errno or exception (or "OK"), the filesystem it
\* leaves, and the record's changed flag.
Raised(e, fs) == [e |-> e, fs |-> fs, changed |-> FALSE]
Committed(fs) == [e |-> "OK", fs |-> fs, changed |-> TRUE]
Skipped(fs, r) == [e |-> "OK", fs |-> fs, changed |-> r.changed]
\* The outcome x of the last call of a commit.
Outcome(x) == IF x.e # "OK" THEN Raised(x.e, x.fs) ELSE Committed(x.fs)
\* The same for a delete that tolerates ENOENT.
OutcomeOfDelete_Found(x) ==
    IF x.e = "ENOENT" THEN [e |-> "OK", fs |-> x.fs, changed |-> FALSE]
    ELSE IF x.e # "OK" THEN Raised(x.e, x.fs) ELSE Committed(x.fs)
OutcomeOfDelete(x) ==
    IF x.e \notin {"OK", "ENOENT"} THEN Raised(x.e, x.fs) ELSE Committed(x.fs)

\* FileRecord.commit with bytes (lines 118-125): the steps after makedirs
\* (d), after the temporary file (t) and after write and chmod (c).
FileWriteChmodded(r, name, c) ==
    IF c.e # "OK" THEN Raised(c.e, c.fs)
    ELSE Outcome(rename(c.fs, name, r.path))
FileWriteTemp(r, t) ==
    IF t.e # "OK" THEN Raised(t.e, t.fs)
    ELSE FileWriteChmodded(r, t.name,
             chmod(write(t.fs, t.name, r.content.b).fs, t.name, r.mode))
FileWriteDirs(r, d) ==
    IF d.e # "OK" THEN Raised(d.e, d.fs)
    ELSE FileWriteTemp(r, NamedTemporaryFile(d.fs, Dirname(r.path)))
FileRecord_write(fs, r) ==
    FileWriteDirs(r, makedirs_exist_ok(fs, Dirname(r.path)))

\* FileRecord.commit with content True (lines 108-116).
FileChmod_Follows(fs, r, filestat) ==
    IF filestat.e = "ENOENT" THEN Raised("FileDoesNotExistError", fs)
    ELSE IF filestat.e # "OK" THEN Raised(filestat.e, fs)
    ELSE Outcome(chmod(fs, r.path, r.mode))
FileChmod(fs, r, filestat) ==
    IF filestat.e = "ENOENT" THEN Raised("FileDoesNotExistError", fs)
    ELSE IF filestat.e # "OK" THEN Raised(filestat.e, fs)
    ELSE IF ~S_ISLNK(filestat.m) THEN Outcome(chmod(fs, r.path, r.mode))
    ELSE Committed(fs)

FileRecord_commit(fs, r) ==
    IF ~r.must_change THEN Skipped(fs, r)
    ELSE IF r.content.tag = "None" THEN OutcomeOfDelete(unlink(fs, r.path))
    ELSE IF r.content.tag = "True" THEN FileChmod(fs, r, lstat(fs, r.path))
    ELSE FileRecord_write(fs, r)

\* LinkRecord.commit (lines 162-173): the steps after unlink (u) and after
\* makedirs (d).
LinkDirs(r, d) ==
    IF d.e # "OK" THEN Raised(d.e, d.fs)
    ELSE Outcome(symlink(d.fs, r.target, r.path))
LinkUnlinked(r, u) ==
    IF u.e \notin {"OK", "ENOENT"} THEN Raised(u.e, u.fs)
    ELSE IF r.target # NoTarget
         THEN LinkDirs(r, makedirs_exist_ok(u.fs, Dirname(r.path)))
    ELSE Committed(u.fs)
LinkRecord_commit(fs, r) ==
    IF ~r.must_change THEN Skipped(fs, r)
    ELSE LinkUnlinked(r, unlink(fs, r.path))

\* RemoveThing.commit (lines 207-211); the remover is os.unlink for rm and
\* shutil.rmtree for rmdir (lines 214-216).
RemoveThing_commit(fs, r) ==
    IF ~r.must_change THEN Skipped(fs, r)
    ELSE IF r.stat_type = "S_ISREG" THEN Outcome(unlink(fs, r.path))
    ELSE Outcome(rmtree(fs, r.path))

commit(fs, r) ==
    IF r.kind = "FileRecord" THEN FileRecord_commit(fs, r)
    ELSE IF r.kind = "LinkRecord" THEN LinkRecord_commit(fs, r)
    ELSE RemoveThing_commit(fs, r)

----------------------------------------------------------------------------
(* _main.  The parameters: None is <<>> for an optional string or target   *)
(* (a given one is <<s>> or the target path), "None" for lsb_service;      *)
(* extra_files, extra_scripts and the given envdir are sequences of        *)
(* [name, content] in the dict's iteration order.                          *)

None == <<>>
Some(x) == <<x>>

RECURSIVE SetToSeq(_)
SetToSeq(S) ==
    IF S = {} THEN <<>>
    ELSE LET x == CHOOSE y \in S : TRUE IN <<x>> \o SetToSeq(S \ {x})

Paths(outfiles) == {outfiles[i].path : i \in 1..Len(outfiles)}

\* sv = functools.partial(os.path.join, sv_directory, name)
sv(sv_directory, name, segments) == Join(Join(sv_directory, <<name>>), segments)

\* exe_mode without the umask (line 265 as mode=EXECUTABLE).
exe_mode_Unmasked(umask) == EXECUTABLE

exe_mode(umask) == BitAnd(EXECUTABLE, BitNot(umask))
nexe_mode(umask) == BitAnd(NONEXECUTABLE, BitNot(umask))

LsbTarget == <<"usr", "bin", "sv">>

\* Declared with the service link appended first, before run.
Declared_ServiceFirst(cfg, sv_directory, service_directory, init_d_directory) ==
    LET p(segments) == sv(sv_directory, cfg.name, segments)
        exe(path, content) == FileRecord(path, exe_mode(cfg.umask), content)
        nexe(path, content) == FileRecord(path, nexe_mode(cfg.umask), content)
        run == <<exe(p(<<"run">>), Bytes(cfg.runscript))>>
        log == IF cfg.log_runscript = None
               THEN <<rmdir(p(<<"log">>))>>
               ELSE <<exe(p(<<"log", "run">>), Bytes(cfg.log_runscript[1]))>>
        files == [i \in 1..Len(cfg.extra_files) |->
                     nexe(p(cfg.extra_files[i].name),
                          Bytes(cfg.extra_files[i].content))]
        scripts == [i \in 1..Len(cfg.extra_scripts) |->
                       exe(p(cfg.extra_scripts[i].name),
                           Bytes(cfg.extra_scripts[i].content))]
        env == IF cfg.envdir = None
               THEN <<rmdir(p(<<"env">>))>>
               ELSE [i \in 1..Len(cfg.envdir[1]) |->
                        nexe(p(<<"env">> \o cfg.envdir[1][i].name),
                             Bytes(cfg.envdir[1][i].content))]
        down == <<nexe(p(<<"down">>),
                       IF cfg.state = "down" THEN Bytes("") ELSE ContentNone)>>
        supervise == <<LinkRecord(p(<<"supervise">>), cfg.supervise_link,
                                  cfg.supervise_link = None)>>
        log_supervise == <<LinkRecord(p(<<"log", "supervise">>),
                                      cfg.log_supervise_link,
                                      cfg.log_supervise_link = None)>>
        service == <<LinkRecord(Join(service_directory, <<cfg.name>>),
                                IF cfg.state = "absent" THEN None ELSE p(<<>>),
                                FALSE)>>
        should_create_lsb == cfg.lsb_service = "present" \/ cfg.lsb_service = "None"
        lsb == IF cfg.state = "absent" \/ init_d_directory = None THEN <<>>
               ELSE <<LinkRecord(Join(init_d_directory, <<cfg.name>>),
                                 IF should_create_lsb THEN LsbTarget ELSE None,
                                 FALSE)>>
    IN  service \o run \o log \o files \o scripts \o env \o down
            \o supervise \o log_supervise \o lsb
\* The records _main declares, in the order it appends them (lines 267-320),
\* given the directories first_directory chose.
Declared(cfg, sv_directory, service_directory, init_d_directory) ==
    LET p(segments) == sv(sv_directory, cfg.name, segments)
        exe(path, content) == FileRecord(path, exe_mode(cfg.umask), content)
        nexe(path, content) == FileRecord(path, nexe_mode(cfg.umask), content)
        run == <<exe(p(<<"run">>), Bytes(cfg.runscript))>>
        log == IF cfg.log_runscript = None
               THEN <<rmdir(p(<<"log">>))>>
               ELSE <<exe(p(<<"log", "run">>), Bytes(cfg.log_runscript[1]))>>
        files == [i \in 1..Len(cfg.extra_files) |->
                     nexe(p(cfg.extra_files[i].name),
                          Bytes(cfg.extra_files[i].content))]
        scripts == [i \in 1..Len(cfg.extra_scripts) |->
                       exe(p(cfg.extra_scripts[i].name),
                           Bytes(cfg.extra_scripts[i].content))]
        env == IF cfg.envdir = None
               THEN <<rmdir(p(<<"env">>))>>
               ELSE [i \in 1..Len(cfg.envdir[1]) |->
                        nexe(p(<<"env">> \o cfg.envdir[1][i].name),
                             Bytes(cfg.envdir[1][i].content))]
        down == <<nexe(p(<<"down">>),
                       IF cfg.state = "down" THEN Bytes("") ELSE ContentNone)>>
        supervise == <<LinkRecord(p(<<"supervise">>), cfg.supervise_link,
                                  cfg.supervise_link = None)>>
        log_supervise == <<LinkRecord(p(<<"log", "supervise">>),
                                      cfg.log_supervise_link,
                                      cfg.log_supervise_link = None)>>
        service == <<LinkRecord(Join(service_directory, <<cfg.name>>),
                                IF cfg.state = "absent" THEN None ELSE p(<<>>),
                                FALSE)>>
        should_create_lsb == cfg.lsb_service = "present" \/ cfg.lsb_service = "None"
        lsb == IF cfg.state = "absent" \/ init_d_directory = None THEN <<>>
               ELSE <<LinkRecord(Join(init_d_directory, <<cfg.name>>),
                                 IF should_create_lsb THEN LsbTarget ELSE None,
                                 FALSE)>>
    IN  run \o log \o files \o scripts \o env \o down
            \o supervise \o log_supervise \o service \o lsb

\* directories_to_clear (lines 269-290).
DirectoriesToClear(cfg, sv_directory) ==
    LET p(segments) == sv(sv_directory, cfg.name, segments) IN
    <<p(<<>>)>>
        \o (IF cfg.log_runscript = None THEN <<>> ELSE <<p(<<"log">>)>>)
        \o (IF cfg.envdir = None THEN <<>> ELSE <<p(<<"env">>)>>)

\* The cleanup pass (lines 326-335): an rm record for every child of a
\* directory to clear that is neither a declared path nor such a directory.
\* The children of one directory come in the arbitrary order of a set.
RECURSIVE Cleanup(_, _, _)
StrayRecords(stray) == [i \in 1..Len(stray) |-> rm(stray[i])]
CleanupRest(stray, rest) ==
    IF rest.e # "OK" THEN rest
    ELSE [e |-> "OK", records |-> StrayRecords(stray) \o rest.records]
CleanupOf_All(fs, to_clear, paths_set, ls) ==
    IF ls.e = "ENOENT" THEN Cleanup(fs, Tail(to_clear), paths_set)
    ELSE IF ls.e # "OK" THEN [e |-> ls.e, records |-> <<>>]
    ELSE CleanupRest(
             SetToSeq({Join(Head(to_clear), <<n>>) : n \in ls.names}),
             Cleanup(fs, Tail(to_clear), paths_set))
CleanupOf(fs, to_clear, paths_set, ls) ==
    IF ls.e = "ENOENT" THEN Cleanup(fs, Tail(to_clear), paths_set)
    ELSE IF ls.e # "OK" THEN [e |-> ls.e, records |-> <<>>]
    ELSE CleanupRest(
             SetToSeq({Join(Head(to_clear), <<n>>) : n \in ls.names} \ paths_set),
             Cleanup(fs, Tail(to_clear), paths_set))
Cleanup(fs, to_clear, paths_set) ==
    IF to_clear = <<>> THEN [e |-> "OK", records |-> <<>>]
    ELSE CleanupOf(fs, to_clear, paths_set, listdir(fs, Head(to_clear)))

\* Building the plan: what _main does up to line 335.  msg is "" or the
\* message it fails with; an exception is the message "unhandled exception"
\* with the exception's name.
PlanFail(m, exc) == [msg |-> m, exc |-> exc, outfiles |-> <<>>, declared |-> 0]

SeqRange(q) == {q[i] : i \in 1..Len(q)}

\* Lines 326-335, given the declared records.
PlanCleaned_First(outfiles, cleanup) ==
    IF cleanup.e # "OK" THEN PlanFail("unhandled exception", cleanup.e)
    ELSE [msg |-> "", exc |-> "", outfiles |-> cleanup.records \o outfiles,
          declared |-> Len(outfiles)]
PlanCleaned(outfiles, cleanup) ==
    IF cleanup.e # "OK" THEN PlanFail("unhandled exception", cleanup.e)
    ELSE [msg |-> "", exc |-> "", outfiles |-> outfiles \o cleanup.records,
          declared |-> Len(outfiles)]

\* PlanDeclared without the test of lines 322-324.
PlanDeclared_Unchecked(fs, outfiles, to_clear) ==
    PlanCleaned(outfiles,
        Cleanup(fs, to_clear, Paths(outfiles) \cup SeqRange(to_clear)))

\* Lines 322-324, given the declared records.
PlanDeclared(fs, outfiles, to_clear) ==
    IF Cardinality(Paths(outfiles)) # Len(outfiles)
    THEN PlanFail("duplicate file paths specified", "")
    ELSE PlanCleaned(outfiles,
             Cleanup(fs, to_clear, Paths(outfiles) \cup SeqRange(to_clear)))

\* Lines 305-320, given what first_directory found for init_d_directory.
PlanLsb(fs, cfg, sv_directory, service_directory, init_d) ==
    IF init_d.e # "OK" THEN PlanFail("unhandled exception", init_d.e)
    ELSE IF cfg.state # "absent" /\ init_d.d = None /\ cfg.lsb_service # "None"
    THEN PlanFail("no /etc/init.d and lsb_service", "")
    ELSE PlanDeclared(fs,
             Declared(cfg, sv_directory, service_directory, init_d.d),
             DirectoriesToClear(cfg, sv_directory))

\* PlanService without the test of lines 271-274.
PlanService_NoLogTest(fs, cfg, sv_directory, service) ==
    IF service.e # "OK" THEN PlanFail("unhandled exception", service.e)
    ELSE IF service.d = None
    THEN PlanFail("no extant directory found for 'service_directory'", "")
    ELSE IF cfg.state = "absent" /\ cfg.lsb_service = "present"
    THEN PlanFail("lsb_service can't be set to present if state=absent", "")
    ELSE PlanLsb(fs, cfg, sv_directory, service.d,
                 IF cfg.state = "absent" THEN [e |-> "OK", d |-> None]
                 ELSE first_directory(fs, cfg.init_d_directory))

\* Lines 259-311, given what first_directory found for service_directory.
PlanService(fs, cfg, sv_directory, service) ==
    IF service.e # "OK" THEN PlanFail("unhandled exception", service.e)
    ELSE IF service.d = None
    THEN PlanFail("no extant directory found for 'service_directory'", "")
    ELSE IF cfg.log_runscript = None /\ cfg.log_supervise_link # None
    THEN PlanFail("log_supervise_link must be specified with log_runscript", "")
    ELSE IF cfg.state = "absent" /\ cfg.lsb_service = "present"
    THEN PlanFail("lsb_service can't be set to present if state=absent", "")
    ELSE PlanLsb(fs, cfg, sv_directory, service.d,
                 IF cfg.state = "absent" THEN [e |-> "OK", d |-> None]
                 ELSE first_directory(fs, cfg.init_d_directory))

\* Line 258, given what first_directory found for sv_directory.
PlanSv(fs, cfg, svd) ==
    IF svd.e # "OK" THEN PlanFail("unhandled exception", svd.e)
    ELSE IF svd.d = None
    THEN PlanFail("no extant directory found for 'sv_directory'", "")
    ELSE PlanService(fs, cfg, svd.d, first_directory(fs, cfg.service_directory))

Plan(fs, cfg) == PlanSv(fs, cfg, first_directory(fs, cfg.sv_directory))

\* The detection loop (lines 337-338): check_if_must_change of every record
\* in order; e is the exception of the first record that raises.
FirstRaised(res) ==
    LET bad == {i \in DOMAIN res : res[i].e # "OK"} IN
    IF bad = {} THEN "OK" ELSE res[CHOOSE i \in bad : \A j \in bad : i <= j].e
DetectOf_Lenient(outfiles, res) ==
    [e |-> "OK",
     outfiles |-> [i \in 1..Len(outfiles) |->
                      [outfiles[i] EXCEPT !.must_change = res[i].v]]]
DetectOf(outfiles, res) ==
    IF FirstRaised(res) # "OK" THEN [e |-> FirstRaised(res), outfiles |-> outfiles]
    ELSE [e |-> "OK",
          outfiles |-> [i \in 1..Len(outfiles) |->
                           [outfiles[i] EXCEPT !.must_change = res[i].v]]]
Detect(fs, outfiles) ==
    DetectOf(outfiles, [i \in 1..Len(outfiles) |-> must_change_p(fs, outfiles[i])])

\* paths = {outfile.path: outfile.must_change for outfile in outfiles}
\* The report built from the changed flags instead of must_change.
Report_Changed(outfiles) ==
    {<<outfiles[i].path, outfiles[i].changed>> : i \in 1..Len(outfiles)}

Report(outfiles) ==
    {<<outfiles[i].path, outfiles[i].must_change>> : i \in 1..Len(outfiles)}

AnyMustChange(outfiles) ==
    \E i \in 1..Len(outfiles) : outfiles[i].must_change

\* A whole run of _main as one function of the tree and the parameters: the
\* status it ends with ("ok" or "failed").  The commit loop (lines 345-346)
\* stops at the first exception.
RECURSIVE CommitAll(_, _, _)
CommitAllOf(recs, i, r) ==
    IF r.e # "OK" THEN "failed" ELSE CommitAll(r.fs, recs, i + 1)
CommitAll(tree, recs, i) ==
    IF i > Len(recs) THEN "ok" ELSE CommitAllOf(recs, i, commit(tree, recs[i]))
RunDetected(tree, chk, det) ==
    IF det.e # "OK" THEN "failed"
    ELSE IF chk \/ ~AnyMustChange(det.outfiles) THEN "ok"
    ELSE CommitAll(tree, det.outfiles, 1)
RunPlanned(tree, chk, plan) ==
    IF plan.msg # "" THEN "failed"
    ELSE RunDetected(tree, chk, Detect(tree, plan.outfiles))
RunOutcome(tree, c, chk) == RunPlanned(tree, chk, Plan(tree, c))

----------------------------------------------------------------------------
(* The state: the tree, the parameters of the module, and one run of _main *)
(* at a time, which is idle, or between two commits of its commit loop.    *)

VARIABLES
    fs,          \* the filesystem: existing path -> entry
    cfg,         \* module.params
    check_mode,  \* module.check_mode of the current (or last) run
    pc,          \* "idle", or "commit" inside the loop of lines 345-346
    outfiles,    \* the records of the current run
    idx,         \* the next record to commit
    result,      \* what the last run reported (exit_json or fail_json)
    fs0,         \* the tree at the start of the current (or last) run
    prev,        \* what the run before the last reported
    same,        \* the last run started from the tree and parameters the
                 \* run before it ended with
    dirty,       \* a parameter or the tree was changed since the last run
    runs, changes, outside

vars == <<fs, cfg, check_mode, pc, outfiles, idx, result, fs0, prev, same,
          dirty, runs, changes, outside>>

Name == "svc"
SvRoot == <<"sv">>
ServiceRoot == <<"service">>
InitDRoot == <<"init.d">>
SvDir == Join(SvRoot, <<Name>>)
UserTarget == <<"spam", "eggs">>

\* The tree before the first run: the three directories the tests create,
\* a regular file, a symbolic link to a directory, and /usr/bin/sv.
InitFs ==
    (SvRoot :> DirEntry) @@ (ServiceRoot :> DirEntry) @@ (InitDRoot :> DirEntry)
    @@ (<<"afile">> :> FileEntry("b", 420)) @@ (<<"alink">> :> LinkEntry(SvRoot))
    @@ (<<"usr">> :> DirEntry) @@ (<<"usr", "bin">> :> DirEntry)
    @@ (LsbTarget :> FileEntry("b", 493))

\* The defaults of the argument_spec (lines 221-237), with the directories
\* of the tests in place of /etc/sv, /service and /etc/init.d.
DefaultCfg ==
    [name |-> Name,
     sv_directory |-> <<SvRoot>>,
     service_directory |-> <<ServiceRoot>>,
     init_d_directory |-> <<InitDRoot>>,
     runscript |-> "a",
     log_runscript |-> None,
     supervise_link |-> None,
     log_supervise_link |-> None,
     state |-> "present",
     extra_files |-> <<>>,
     extra_scripts |-> <<>>,
     envdir |-> None,
     lsb_service |-> "None",
     umask |-> 18]

Item(name, content) == [name |-> name, content |-> content]

\* The values each parameter is drawn from.
ParamValues ==
    [sv_directory |-> {<<SvRoot>>, <<<<"afile">>, <<"alink">>, SvRoot>>,
                       <<<<"missing">>, <<"alink">>>>},
     service_directory |-> {<<ServiceRoot>>, <<<<"missing">>>>},
     init_d_directory |-> {<<InitDRoot>>, <<>>},
     runscript |-> {"a", "b"},
     log_runscript |-> {None, Some("a")},
     supervise_link |-> {None, UserTarget},
     log_supervise_link |-> {None, UserTarget},
     state |-> {"present", "absent", "down"},
     extra_files |-> {<<>>} \cup
         {<<Item(n, "a")>> : n \in {<<"x">>, <<"run">>, <<"sub", "x">>,
                                    <<"log", "run">>, <<"env">>}},
     extra_scripts |-> {<<>>, <<Item(<<"x">>, "b")>>},
     envdir |-> {None, Some(<<>>), Some(<<Item(<<"K">>, "a")>>)},
     lsb_service |-> {"None", "present", "absent"},
     umask |-> {18, 7}]

\* The paths an outside modification touches and what it puts there.
OutsidePaths ==
    {SvDir, Join(ServiceRoot, <<Name>>), Join(InitDRoot, <<Name>>)}
    \cup {Join(SvDir, s) : s \in {<<"run">>, <<"down">>, <<"supervise">>,
                                  <<"stale">>, <<"log">>, <<"env">>,
                                  <<"log", "supervise">>, <<"log", "stale">>,
                                  <<"env", "stale">>}}

OutsideKinds ==
    {"file_a", "file_b", "dir", "tree", "link_sv", "link_bin", "link_user", "gone"}

OutsideEntry(kind) ==
    CASE kind = "file_a" -> FileEntry("a", 493)
      [] kind = "file_b" -> FileEntry("b", 384)
      [] kind = "link_sv" -> LinkEntry(SvDir)
      [] kind = "link_bin" -> LinkEntry(LsbTarget)
      [] kind = "link_user" -> LinkEntry(UserTarget)
      [] OTHER -> DirEntry

Ancestors(p) == {SubSeq(p, 1, n) : n \in 1..(Len(p) - 1)}

\* The tree with whatever is at p replaced by an entry of the kind, the
\* missing directories above p made.
OutsideTree(tree, p, kind) ==
    LET cleared == Without(tree, Subtree(tree, p))
        up == [q \in Ancestors(p) \ DOMAIN cleared |-> DirEntry]
        new == IF kind = "gone" THEN <<>>
               ELSE IF kind = "tree"
               THEN (p :> DirEntry) @@ (Join(p, <<"ok">>) :> FileEntry("b", 384))
               ELSE (p :> OutsideEntry(kind))
    IN  IF kind = "gone" THEN cleared ELSE new @@ up @@ cleared

NoResult == [status |-> "none", changed |-> FALSE, paths |-> {}, msg |-> "", exc |-> "",
             check |-> FALSE]

Init ==
    /\ fs = InitFs
    /\ cfg = DefaultCfg
    /\ check_mode = FALSE
    /\ pc = "idle"
    /\ outfiles = <<>>
    /\ idx = 0
    /\ result = NoResult
    /\ fs0 = InitFs
    /\ prev = NoResult
    /\ same = FALSE
    /\ dirty = FALSE
    /\ runs = 0
    /\ changes = 0
    /\ outside = 0

\* The parameter k of the module is edited to v.
Edit(k, v) ==
    /\ pc = "idle"
    /\ runs < MaxRuns
    /\ changes < MaxChanges
    /\ v # cfg[k]
    /\ cfg' = [cfg EXCEPT ![k] = v]
    /\ dirty' = TRUE
    /\ changes' = changes + 1
    /\ UNCHANGED <<fs, check_mode, pc, outfiles, idx, result, fs0, prev, same,
                   runs, outside>>

\* Something other than the module changes the tree at p.
Outside(p, kind) ==
    /\ pc = "idle"
    /\ runs < MaxRuns
    /\ changes < MaxChanges
    /\ outside < MaxOutside
    /\ \A q \in Ancestors(p) : q \in DOMAIN fs => S_ISDIR(fs[q].m)
    /\ kind = "gone" => p \in DOMAIN fs
    /\ fs' = OutsideTree(fs, p, kind)
    /\ fs' # fs
    /\ dirty' = TRUE
    /\ changes' = changes + 1
    /\ outside' = outside + 1
    /\ UNCHANGED <<cfg, check_mode, pc, outfiles, idx, result, fs0, prev, same,
                   runs>>

Failed(msg, exc, chk) ==
    [status |-> "failed", changed |-> FALSE, paths |-> {}, msg |-> msg,
     exc |-> exc, check |-> chk]
Exited(status, changed, paths, chk) ==
    [status |-> status, changed |-> changed, paths |-> paths, msg |-> "",
     exc |-> "", check |-> chk]

\* A run of _main starts: it builds the records, validates them, adds the
\* cleanup records and runs the detection loop (lines 249-343).  It ends
\* here when it fails, when nothing must change and in check mode.
Ended(res, recs) ==
    /\ result' = res
    /\ outfiles' = recs
    /\ pc' = "idle"
    /\ idx' = 0

\* BeginDetected without the test of module.check_mode (line 342).
BeginDetected_CheckIgnored(chk, det) ==
    IF det.e # "OK"
    THEN Ended(Failed("unhandled exception", det.e, chk), det.outfiles)
    ELSE IF ~AnyMustChange(det.outfiles)
    THEN Ended(Exited("ok", FALSE, Report(det.outfiles), chk), det.outfiles)
    ELSE /\ result' = Exited("running", TRUE, Report(det.outfiles), chk)
         /\ outfiles' = det.outfiles
         /\ pc' = "commit"
         /\ idx' = 1

\* BeginDetected without the test of lines 340-341: a run that found nothing
\* to change goes on like one that found something.
BeginDetected_NoEarlyExit(chk, det) ==
    IF det.e # "OK"
    THEN Ended(Failed("unhandled exception", det.e, chk), det.outfiles)
    ELSE IF chk
    THEN Ended(Exited("ok", TRUE, Report(det.outfiles), chk), det.outfiles)
    ELSE /\ result' = Exited("running", TRUE, Report(det.outfiles), chk)
         /\ outfiles' = det.outfiles
         /\ pc' = "commit"
         /\ idx' = 1

BeginDetected(chk, det) ==
    IF det.e # "OK"
    THEN Ended(Failed("unhandled exception", det.e, chk), det.outfiles)
    ELSE IF ~AnyMustChange(det.outfiles)
    THEN Ended(Exited("ok", FALSE, Report(det.outfiles), chk), det.outfiles)
    ELSE IF chk
    THEN Ended(Exited("ok", TRUE, Report(det.outfiles), chk), det.outfiles)
    ELSE /\ result' = Exited("running", TRUE, Report(det.outfiles), chk)
         /\ outfiles' = det.outfiles
         /\ pc' = "commit"
         /\ idx' = 1

BeginPlanned(chk, plan) ==
    IF plan.msg # "" THEN Ended(Failed(plan.msg, plan.exc, chk), <<>>)
    ELSE BeginDetected(chk, Detect(fs, plan.outfiles))

Begin(chk) ==
    /\ pc = "idle"
    /\ runs < MaxRuns
    /\ BeginPlanned(chk, Plan(fs, cfg))
    /\ check_mode' = chk
    /\ fs0' = fs
    /\ prev' = result
    /\ same' = (~dirty /\ runs > 0)
    /\ dirty' = FALSE
    /\ runs' = runs + 1
    /\ UNCHANGED <<fs, cfg, changes, outside>>

\* One pass of the commit loop (lines 345-346): commit of the next record.
\* An exception ends the run in fail_json, what was committed staying.
CommitOf_Continues(r) ==
    /\ fs' = r.fs
    /\ idx' = idx + 1
    /\ outfiles' = [outfiles EXCEPT ![idx].changed = r.changed]
    /\ UNCHANGED <<result, pc>>
CommitOf(r) ==
    /\ fs' = r.fs
    /\ IF r.e # "OK"
       THEN /\ result' = Failed("unhandled exception", r.e, check_mode)
            /\ pc' = "idle"
            /\ UNCHANGED <<outfiles, idx>>
       ELSE /\ outfiles' = [outfiles EXCEPT ![idx].changed = r.changed]
            /\ idx' = idx + 1
            /\ UNCHANGED <<result, pc>>

CommitStep ==
    /\ pc = "commit"
    /\ idx <= Len(outfiles)
    /\ CommitOf(commit(fs, outfiles[idx]))
    /\ UNCHANGED <<cfg, check_mode, fs0, prev, same, dirty, runs, changes, outside>>

\* The loop is over: exit_json(paths=paths, changed=True) (line 348).
Finish ==
    /\ pc = "commit"
    /\ idx > Len(outfiles)
    /\ result' = [result EXCEPT !.status = "ok"]
    /\ pc' = "idle"
    /\ UNCHANGED <<fs, cfg, check_mode, outfiles, idx, fs0, prev, same, dirty,
                   runs, changes, outside>>

Next ==
    \/ \E k \in DOMAIN ParamValues : \E v \in ParamValues[k] : Edit(k, v)
    \/ \E p \in OutsidePaths : \E kind \in OutsideKinds : Outside(p, kind)
    \/ \E chk \in BOOLEAN : Begin(chk)
    \/ CommitStep
    \/ Finish

Spec == Init /\ [][Next]_vars

\* ------------------------------------------------------------------
\* Properties

\* A run of _main has started and nothing was edited since: cfg and fs0 are
\* what it started from.  It is over once exit_json or fail_json was called.
Started == runs > 0 /\ ~dirty
Done == Started /\ pc = "idle"
RealDone == Done /\ ~check_mode
RealOk == RealDone /\ result.status = "ok"

\* The run before the last was immediately followed by the last one: same
\* parameters, and the tree as that run left it.
Successive == Done /\ same

\* _main gets as far as declaring its records from the tree and parameters:
\* none of the fail_json calls of lines 249-315 fires.
HasDirectory(tree, directories) ==
    \E i \in DOMAIN directories : IsDirOf(lstat(tree, directories[i]))
Declares(tree, c) ==
    /\ HasDirectory(tree, c.sv_directory)
    /\ HasDirectory(tree, c.service_directory)
    /\ ~(c.log_runscript = None /\ c.log_supervise_link # None)
    /\ ~(c.state = "absent" /\ c.lsb_service = "present")
    /\ ~(c.state # "absent" /\ c.lsb_service # "None"
            /\ ~HasDirectory(tree, c.init_d_directory))

ExtraNames(c) ==
    {c.extra_files[i].name : i \in DOMAIN c.extra_files}
        \cup {c.extra_scripts[i].name : i \in DOMAIN c.extra_scripts}

\* C1: idempotence of a run.  When a real run succeeded with changed=true
\* and a real run with the same parameters follows it immediately, that
\* second run succeeds, reports changed=false and leaves the tree exactly
\* as the first run left it.
C1_Idempotence ==
    (Successive /\ RealDone /\ ~prev.check /\ prev.status = "ok" /\ prev.changed)
        => (result.status = "ok" /\ ~result.changed /\ fs = fs0)

\* C2: dry-run purity and the report of a dry run.  A run in check mode
\* leaves the tree as it found it, and the report (status, paths, changed)
\* of a real run from the same tree and parameters equals the report of
\* the check run.
C2_CheckPure == (Done /\ check_mode) => fs = fs0
C2_DryRun ==
    /\ C2_CheckPure
    /\ (Successive /\ RealDone /\ prev.check)
           => /\ result.status = prev.status
              /\ result.paths = prev.paths
              /\ result.changed = prev.changed

\* C2, amended: a run in check mode leaves the tree as it found it; a real
\* run from the same tree and parameters computes in its detection phase
\* the paths and the changed flag the check run reported, and fails where
\* the check run failed; a real run that fails although the check run
\* succeeded fails in its commit loop, with changes the check run announced.
C2_DryRunDetection ==
    /\ C2_CheckPure
    /\ (Started /\ same /\ ~check_mode /\ prev.check)
           => IF prev.status = "ok"
              THEN IF pc = "commit" \/ result.status = "ok"
                   THEN /\ result.paths = prev.paths
                        /\ result.changed = prev.changed
                   ELSE /\ prev.changed
                        /\ result.msg = "unhandled exception"
              ELSE /\ pc = "idle"
                   /\ result = [prev EXCEPT !.check = FALSE]
                   /\ fs = fs0

\* A check run announced changes and left the tree alone; the real run
\* after it made them.
C2_Witness ==
    /\ Successive /\ RealOk /\ prev.check
    /\ prev.status = "ok" /\ prev.changed
    /\ result.paths = prev.paths
    /\ fs # fs0

\* C3: duplicate detection.  When two of the records _main declares have
\* the same path (a name in both extra_files and extra_scripts, or an
\* extra name equal to "run"), the run fails with "duplicate file paths
\* specified", no record was checked or committed, and the tree is as
\* the run found it.
DuplicateNames(c) ==
    \/ <<"run">> \in ExtraNames(c)
    \/ \E i \in DOMAIN c.extra_files : \E j \in DOMAIN c.extra_scripts :
           c.extra_files[i].name = c.extra_scripts[j].name
C3_Duplicates ==
    (Done /\ Declares(fs0, cfg) /\ DuplicateNames(cfg))
        => /\ result.status = "failed"
           /\ result.msg = "duplicate file paths specified"
           /\ outfiles = <<>>
           /\ fs = fs0

\* A real run with an extra file named run, on a tree that holds a stray
\* file the cleanup would have removed: it fails and the file stays.
C3_Witness ==
    /\ RealDone /\ Declares(fs0, cfg)
    /\ <<"run">> \in ExtraNames(cfg)
    /\ Join(SvDir, <<"stale">>) \in DOMAIN fs
    /\ result.msg = "duplicate file paths specified"

\* The directories the last run chose, and the paths below them.
SvPath(segments) ==
    sv(first_directory(fs0, cfg.sv_directory).d, cfg.name, segments)
ServicePath == Join(first_directory(fs0, cfg.service_directory).d, <<cfg.name>>)
HasInitD == HasDirectory(fs0, cfg.init_d_directory)
InitDPath == Join(first_directory(fs0, cfg.init_d_directory).d, <<cfg.name>>)

\* What is at a path of the tree, no link followed.
Missing(p) == p \notin DOMAIN fs
IsFileWith(p, content, perm) ==
    /\ p \in DOMAIN fs
    /\ S_ISREG(fs[p].m)
    /\ fs[p].c = content
    /\ settable_mode(fs[p].m) = perm
IsLinkTo(p, target) ==
    p \in DOMAIN fs /\ S_ISLNK(fs[p].m) /\ fs[p].t = target

\* Only the module has changed the tree, in real runs that succeeded.
OnlySuccessfulRuns ==
    outside = 0 /\ RealOk /\ (prev.status = "none" \/ (prev.status = "ok" /\ ~prev.check))

\* C4: state=absent removes both registrations.  After a sequence of
\* successful real runs that ends with a run with state=absent and
\* lsb_service unset or absent, also when an earlier run with state=present
\* made the links, nothing is at service_root/name nor at init_d_root/name,
\* and sv_root/name/run still reads as the runscript.
C4_AbsentRemovesLinks ==
    (OnlySuccessfulRuns /\ cfg.state = "absent" /\ cfg.lsb_service # "present")
        => /\ Missing(ServicePath)
           /\ HasInitD => Missing(InitDPath)
           /\ hash_file(fs, SvPath(<<"run">>)).hash = sha256(cfg.runscript)

\* The records the last run declared and the directories it cleared.
DeclaredPaths ==
    Paths(Declared(cfg, first_directory(fs0, cfg.sv_directory).d,
                   first_directory(fs0, cfg.service_directory).d,
                   first_directory(fs0, cfg.init_d_directory).d))
ManagedDirs == SeqRange(DirectoriesToClear(cfg, first_directory(fs0, cfg.sv_directory).d))

\* C5: cleanup of the exclusively managed directories.  After a successful
\* real run every immediate child of sv_root/name (of its log when
\* log_runscript is set, of its env when envdir is set) is the path of a
\* declared record or one of these directories, and every regular file
\* that was in one of them before the run and that no record declares is
\* gone.
C5_Cleanup ==
    RealOk =>
        /\ \A d \in ManagedDirs : \A p \in Children(fs, d) :
               p \in DeclaredPaths \cup ManagedDirs
        /\ \A p \in DOMAIN fs0 :
               (/\ S_ISREG(fs0[p].m)
                /\ Dirname(p) \in ManagedDirs
                /\ p \notin DeclaredPaths) => Missing(p)

\* Reading the path, links followed, gives the content.
ReadsOf(h, content) == h.e = "OK" /\ ~h.none /\ h.hash = sha256(content)
Reads(p, content) == ReadsOf(hash_file(fs, p), content)

AllItems(c) ==
    {<<c.extra_files[i].name, c.extra_files[i].content>> : i \in DOMAIN c.extra_files}
        \cup {<<c.extra_scripts[i].name, c.extra_scripts[i].content>> :
                 i \in DOMAIN c.extra_scripts}
        \cup (IF c.envdir = None THEN {}
              ELSE {<<<<"env">> \o c.envdir[1][i].name, c.envdir[1][i].content>> :
                       i \in DOMAIN c.envdir[1]})

\* C6: the tree after a successful real run with state present or down,
\* lsb_service unset or present and an init.d directory.  sv_root/name/run
\* is a regular file with the bytes of runscript and the mode 0o777 & ~umask;
\* sv_root/name/log/run exists, with the bytes of log_runscript, exactly
\* when log_runscript is set; every entry of extra_files, extra_scripts and
\* envdir exists with its content; service_root/name is a symbolic link to
\* sv_root/name and init_d_root/name one to /usr/bin/sv.
C6_PostState ==
    (RealOk /\ cfg.state # "absent" /\ cfg.lsb_service # "absent" /\ HasInitD)
        => /\ IsFileWith(SvPath(<<"run">>), cfg.runscript, exe_mode(cfg.umask))
           /\ IF cfg.log_runscript = None
              THEN ~exists(fs, SvPath(<<"log", "run">>))
              ELSE Reads(SvPath(<<"log", "run">>), cfg.log_runscript[1])
           /\ \A it \in AllItems(cfg) : Reads(SvPath(it[1]), it[2])
           /\ IsLinkTo(ServicePath, SvPath(<<>>))
           /\ IsLinkTo(InitDPath, LsbTarget)

\* C7: the down marker.  After a successful real run there is an entry at
\* sv_root/name/down exactly when state is down: then it is an empty
\* regular file with the mode 0o666 & ~umask, and with state present or
\* absent nothing is at that path, neither a file nor a symbolic link.
C7_DownMarker ==
    RealOk =>
        IF cfg.state = "down"
        THEN IsFileWith(SvPath(<<"down">>), "", nexe_mode(cfg.umask))
        ELSE Missing(SvPath(<<"down">>))

\* The two supervise paths with the parameter that asks for a link there.
SuperviseCases ==
    {[segments |-> <<"supervise">>, link |-> cfg.supervise_link],
     [segments |-> <<"log", "supervise">>, link |-> cfg.log_supervise_link]}

\* A real directory was at the path before the run, no link is asked for,
\* and the run succeeds from the same tree without that directory.
Tolerable(k) ==
    /\ Done
    /\ k.link = None
    /\ Declares(fs0, cfg)
    /\ SvPath(k.segments) \in DOMAIN fs0
    /\ S_ISDIR(fs0[SvPath(k.segments)].m)
    /\ RunOutcome(Without(fs0, Subtree(fs0, SvPath(k.segments))), cfg, check_mode)
           = "ok"

\* The run succeeded, reported false for the path, made no cleanup record
\* for it, and the directory is there with all it held.
Tolerated(p) ==
    /\ result.status = "ok"
    /\ <<p, FALSE>> \in result.paths
    /\ \A i \in DOMAIN outfiles : outfiles[i].path = p => outfiles[i].kind = "LinkRecord"
    /\ \A q \in Subtree(fs0, p) : q \in DOMAIN fs /\ fs[q] = fs0[q]

\* C8: a tolerated supervise directory.  When supervise_link (or
\* log_supervise_link) is not set and a real directory is at
\* sv_root/name/supervise (or sv_root/name/log/supervise), the run does not
\* fail, reports false for that path, has no cleanup record for it, and
\* the directory with its contents is still there after the run.
C8_SuperviseDirectory ==
    \A k \in SuperviseCases : Tolerable(k) => Tolerated(SvPath(k.segments))

\* C8, amended: the same, for sv_root/name/log/supervise only when
\* log_runscript is set; without log_runscript the run removes the whole log
\* directory.
C8_SuperviseDirectoryKept ==
    \A k \in SuperviseCases :
        (Tolerable(k) /\ (k.segments = <<"supervise">> \/ cfg.log_runscript # None))
            => Tolerated(SvPath(k.segments))

\* A real run that changed the tree found a directory with a file in it at
\* sv_root/name/log/supervise and kept both.
C8_Witness ==
    /\ RealOk /\ result.changed
    /\ cfg.log_supervise_link = None /\ cfg.log_runscript # None
    /\ SvPath(<<"log", "supervise", "ok">>) \in DOMAIN fs0
    /\ SvPath(<<"log", "supervise", "ok">>) \in DOMAIN fs

\* The records of the last run, as _main built them from the tree it found.
Planned == Plan(fs0, cfg).outfiles

\* A regular file is at the record's path, or a directory the record does
\* not tolerate.
Occupied(r) ==
    /\ r.path \in DOMAIN fs0
    /\ \/ S_ISREG(fs0[r.path].m)
       \/ S_ISDIR(fs0[r.path].m) /\ ~r.dir_ok

\* The i-th record is the first whose check_if_must_change raises.
RaisesFirst(recs, i) ==
    \A j \in 1..(i - 1) : must_change_p(fs0, recs[j]).e = "OK"

\* C9: link path conflict.  check_if_must_change of a LinkRecord raises
\* PathAlreadyExistsError when a regular file is at its path, whatever its
\* target and dir_ok, and when a directory is there and dir_ok is false; this
\* holds for the records _main builds (a supervise link asked for where a
\* directory is, a service_root/name that is no link), and the run then
\* fails in the detection phase with no record committed.
C9_LinkConflict ==
    Done =>
        \A i \in DOMAIN Planned :
            (Planned[i].kind = "LinkRecord" /\ Occupied(Planned[i]))
                => /\ must_change_p(fs0, Planned[i]).e = "PathAlreadyExistsError"
                   /\ result.status = "failed"
                   /\ result.msg = "unhandled exception"
                   /\ RaisesFirst(Planned, i) => result.exc = "PathAlreadyExistsError"
                   /\ fs = fs0

\* A real run that asked for a supervise link where a directory is: it
\* failed with the conflict and did not write the run file it lacked.
C9_Witness ==
    /\ RealDone
    /\ cfg.supervise_link # None
    /\ SvPath(<<"supervise">>) \in DOMAIN fs0
    /\ S_ISDIR(fs0[SvPath(<<"supervise">>)].m)
    /\ result.exc = "PathAlreadyExistsError"
    /\ Missing(SvPath(<<"run">>))

\* The four invalid combinations of parameters.
LogLinkWithoutLog(c) == c.log_supervise_link # None /\ c.log_runscript = None
LsbWhenAbsent(c) == c.lsb_service = "present" /\ c.state = "absent"
LsbWithoutInitD(tree, c) ==
    /\ c.lsb_service = "present" /\ c.state # "absent"
    /\ ~HasDirectory(tree, c.init_d_directory)
NoRoot(tree, c) ==
    ~HasDirectory(tree, c.sv_directory) \/ ~HasDirectory(tree, c.service_directory)

\* C10: invalid combinations of parameters are rejected before the tree is
\* touched.  The run ends in fail_json, with no record built and the tree
\* as it was, when log_supervise_link is set without log_runscript, when
\* lsb_service is present with state absent, when lsb_service is present,
\* state is not absent and no init_d_directory is a directory, and when no
\* sv_directory or no service_directory is a directory.
C10_InvalidCombinations ==
    (/\ Done
     /\ \/ LogLinkWithoutLog(cfg)
        \/ LsbWhenAbsent(cfg)
        \/ LsbWithoutInitD(fs0, cfg)
        \/ NoRoot(fs0, cfg))
        => /\ result.status = "failed"
           /\ result.msg # "unhandled exception"
           /\ result.exc = ""
           /\ outfiles = <<>>
           /\ fs = fs0

\* A real run with log_supervise_link and no log_runscript, on a tree that
\* lacks the run file: it failed with the message of line 274.
C10_Witness ==
    /\ RealDone
    /\ LogLinkWithoutLog(cfg)
    /\ ~NoRoot(fs0, cfg)
    /\ result.msg = "log_supervise_link must be specified with log_runscript"
    /\ Missing(SvPath(<<"run">>))

\* _main passes every fail_json before the one about init.d (lines 249-309).
ReachesInitD(tree, c) ==
    /\ ~NoRoot(tree, c)
    /\ ~LogLinkWithoutLog(c)
    /\ ~LsbWhenAbsent(c)

\* A record for an init.d link: its path is the name below a candidate of
\* init_d_directory.
IsInitDRecord(r) ==
    \E i \in DOMAIN cfg.init_d_directory :
        r.path = Join(cfg.init_d_directory[i], <<cfg.name>>)

\* C11: a missing init.d directory matters only when LSB integration is
\* asked for.  When no init_d_directory is a directory, _main fails if and
\* only if state is not absent and lsb_service is present; with lsb_service
\* unset or absent the run goes on, without a record for an init.d link.
C11_MissingInitD ==
    (Done /\ ReachesInitD(fs0, cfg) /\ ~HasInitD)
        => IF cfg.state # "absent" /\ cfg.lsb_service = "present"
           THEN /\ result.status = "failed"
                /\ result.msg = "no /etc/init.d and lsb_service"
           ELSE /\ result.msg # "no /etc/init.d and lsb_service"
                /\ \A i \in DOMAIN outfiles : ~IsInitDRecord(outfiles[i])

\* The modes the spec gives for the two umasks of the tests: 0o755 and 0o644
\* under 0o022, 0o770 and 0o660 under 0o007.
MaskedMode(umask, executable) ==
    CASE umask = 18 /\ executable -> 493
      [] umask = 18 /\ ~executable -> 420
      [] umask = 7 /\ executable -> 504
      [] umask = 7 /\ ~executable -> 432

\* The paths _main declares with exe: run, log/run when log_runscript is
\* set, and the extra scripts.
ExecutablePaths ==
    {SvPath(<<"run">>)}
        \cup (IF cfg.log_runscript = None THEN {} ELSE {SvPath(<<"log", "run">>)})
        \cup {SvPath(cfg.extra_scripts[i].name) : i \in DOMAIN cfg.extra_scripts}

\* C12: mode masking.  Every FileRecord _main builds for run, log/run and
\* the extra scripts has the mode 0o777 & ~umask, every one for the extra
\* files, the envdir entries and down the mode 0o666 & ~umask; after a
\* successful real run every file the run wrote has that settable mode.
C12_ModeMasking ==
    /\ Done =>
           \A i \in DOMAIN Planned :
               Planned[i].kind = "FileRecord"
                   => Planned[i].mode
                          = MaskedMode(cfg.umask, Planned[i].path \in ExecutablePaths)
    /\ RealOk =>
           \A i \in DOMAIN outfiles :
               (/\ outfiles[i].kind = "FileRecord"
                /\ outfiles[i].must_change
                /\ outfiles[i].content.tag = "Bytes"
                /\ outfiles[i].path \in DOMAIN fs)
                   => /\ S_ISREG(fs[outfiles[i].path].m)
                      /\ settable_mode(fs[outfiles[i].path].m)
                             = MaskedMode(cfg.umask,
                                          outfiles[i].path \in ExecutablePaths)

\* A real run under umask 0o007 wrote run and an extra script with 0o770.
C12_Witness ==
    /\ RealOk /\ cfg.umask = 7 /\ cfg.extra_scripts # <<>>
    /\ \A i \in DOMAIN cfg.extra_scripts :
           IsFileWith(SvPath(cfg.extra_scripts[i].name),
                      cfg.extra_scripts[i].content, 504)
    /\ IsFileWith(SvPath(<<"run">>), cfg.runscript, 504)
    /\ fs # fs0

\* C13: purge of the subtrees that are not configured.  A successful real
\* run with log_runscript unset leaves nothing at sv_root/name/log, whatever
\* the directory held, and one with envdir unset leaves nothing at
\* sv_root/name/env; when something that is no directory is at either path,
\* the run fails in the detection phase with NotAThingError.
C13_Purge ==
    /\ (RealOk /\ cfg.log_runscript = None) => Subtree(fs, SvPath(<<"log">>)) = {}
    /\ (RealOk /\ cfg.envdir = None) => Subtree(fs, SvPath(<<"env">>)) = {}
    /\ Done =>
           \A i \in DOMAIN Planned :
               (/\ Planned[i].kind = "RemoveThing"
                /\ Planned[i].stat_type = "S_ISDIR"
                /\ Planned[i].path \in DOMAIN fs0
                /\ ~S_ISDIR(fs0[Planned[i].path].m))
                   => /\ result.status = "failed"
                      /\ RaisesFirst(Planned, i) => result.exc = "NotAThingError"
                      /\ fs = fs0

\* The run got past the detection phase: it reported, or is committing.
Reported == Started /\ (pc = "commit" \/ result.status = "ok")

\* C14: the content of the report.  The paths map has exactly one key for
\* every record, declared or made by the cleanup, and gives for each path
\* the must_change value the detection phase computed on the tree the run
\* found, not the changed flag set by commit; the changed flag of the run is
\* true exactly when some record has must_change true, in check mode and
\* in real mode.
C14_Report ==
    Reported =>
        /\ Cardinality(result.paths) = Len(outfiles)
        /\ {pair[1] : pair \in result.paths} = Paths(outfiles)
        /\ \A i \in DOMAIN outfiles :
               /\ outfiles[i].must_change = must_change_p(fs0, outfiles[i]).v
               /\ <<outfiles[i].path, outfiles[i].must_change>> \in result.paths
        /\ result.changed = (\E i \in DOMAIN outfiles : outfiles[i].must_change)

\* A real run removed a stray file: the report has true for it and false
\* for a path that needed nothing.
C14_Witness ==
    /\ RealOk
    /\ SvPath(<<"stale">>) \in DOMAIN fs0
    /\ <<SvPath(<<"stale">>), TRUE>> \in result.paths
    /\ <<SvPath(<<"down">>), FALSE>> \in result.paths
    /\ Missing(SvPath(<<"stale">>))

----------------------------------------------------------------------------
(* The helpers and the records on their own, as the unit tests call them:  *)
(* one call of first_directory, or one record that is constructed, has its *)
(* must_change set and is committed one system call at a time.  Here fs is *)
(* the tree, fs0 the tree before the call, cfg.sv_directory the list given *)
(* to first_directory, outfiles the one record, pc the position inside the *)
(* method, idx the number of the temporary file, result what the call      *)
(* returned or raised.  The other variables keep their initial values.     *)

\* The longest list given to first_directory.
MaxList == 3

\* The candidates of first_directory in InitFs: two directories, a regular
\* file, a symbolic link to a directory, a missing path, a path below a file.
UnitCandidates ==
    {SvRoot, ServiceRoot, <<"afile">>, <<"alink">>, <<"missing">>,
     <<"afile", "x">>}
UnitLists == UNION {[1..n -> UnitCandidates] : n \in 0..MaxList}

\* The paths of the records: in an existing directory, below one missing
\* directory and below two.
UnitPaths ==
    {Join(SvRoot, <<"f">>), Join(SvRoot, <<"d", "f">>),
     Join(SvRoot, <<"d1", "d2", "f">>)}

\* What is at the path before: a file, a directory, a symbolic link to a
\* directory, to a file or to nothing.
UnitEntries ==
    {FileEntry(c, perm) : c \in {"", "ab"}, perm \in {420, 493}}
    \cup {DirEntry}
    \cup {LinkEntry(t) : t \in {SvRoot, LsbTarget, UserTarget}}
UnitTree(p, e) ==
    (p :> e) @@ [q \in Ancestors(p) \ DOMAIN InitFs |-> DirEntry] @@ InitFs
\* The trees: nothing at the path (its missing parents missing too), each
\* entry, a directory that is not empty, and a regular file where the
\* directory of the path or the directory above that should be.
UnitTrees(p) ==
    {InitFs} \cup {UnitTree(p, e) : e \in UnitEntries}
    \cup {(Join(p, <<"ok">>) :> FileEntry("ab", 384)) @@ UnitTree(p, DirEntry)}
    \cup {UnitTree(SubSeq(p, 1, n), FileEntry("ab", 420)) :
             n \in {Len(p) - 2, Len(p) - 1} \ {0}}

\* The directories a cleanup pass is given: two directories one in the
\* other, a regular file, a symbolic link to a directory, a missing path.
ClearCandidates ==
    {<<"usr">>, <<"usr", "bin">>, <<"afile">>, <<"alink">>, <<"missing">>}
ClearLists == UNION {[1..n -> ClearCandidates] : n \in 1..2}

UnitRecords(p) ==
    {FileRecord(p, mode, content) :
        mode \in {420, 493},
        content \in {ContentNone, ContentTrue, Bytes(""), Bytes("ab")}}
    \cup {LinkRecord(p, target, dir_ok) :
            target \in {NoTarget, SvRoot, UserTarget}, dir_ok \in BOOLEAN}
    \cup {rm(p), rmdir(p)}

UnitStart(position, recs, directories, tree) ==
    /\ fs = tree
    /\ fs0 = tree
    /\ cfg = [DefaultCfg EXCEPT !.sv_directory = directories]
    /\ pc = position
    /\ outfiles = recs
    /\ idx = 0
    /\ result = NoResult
    /\ check_mode = FALSE
    /\ prev = NoResult
    /\ same = FALSE
    /\ dirty = FALSE
    /\ runs = 0
    /\ changes = 0
    /\ outside = 0

UnitInit ==
    \/ \E directories \in UnitLists :
         UnitStart("first_directory", <<>>, directories, InitFs)
    \/ \E p \in UnitPaths : \E tree \in UnitTrees(p) : \E r \in UnitRecords(p) :
         UnitStart("constructed", <<r>>, DefaultCfg.sv_directory, tree)
    \/ \E directories \in ClearLists :
         UnitStart("cleanup", <<>>, directories, InitFs)

UnitFrame ==
    UNCHANGED <<cfg, check_mode, fs0, prev, same, dirty, runs, changes, outside>>

\* The call returns, or raises e at the position it had reached.
UnitReturned(value) ==
    /\ result' = [NoResult EXCEPT !.status = "returned", !.paths = {value}]
    /\ pc' = "returned"
UnitRaised(e, position) ==
    /\ result' = [NoResult EXCEPT !.status = "raised", !.exc = e,
                                  !.msg = position]
    /\ pc' = "raised"

\* first_directory(directories) (lines 23-34).
CallFirstDirectoryOf(ret) ==
    IF ret.e # "OK" THEN UnitRaised(ret.e, "first_directory")
    ELSE UnitReturned(ret.d)
CallFirstDirectory ==
    /\ pc = "first_directory"
    /\ CallFirstDirectoryOf(first_directory(fs, cfg.sv_directory))
    /\ UNCHANGED <<fs, outfiles, idx>>
    /\ UnitFrame

\* The cleanup pass of _main over directories_to_clear (lines 326-335), no
\* record declared: result.paths are the paths it would have removed.
ClearDirectoriesOf(x) ==
    IF x.e # "OK"
    THEN /\ result' = [NoResult EXCEPT !.status = "raised", !.exc = x.e,
                                       !.msg = "cleanup"]
         /\ pc' = "cleanup_raised"
    ELSE /\ result' = [NoResult EXCEPT !.status = "cleaned",
                                       !.paths = Paths(x.records)]
         /\ pc' = "cleaned"
ClearDirectories ==
    /\ pc = "cleanup"
    /\ ClearDirectoriesOf(Cleanup(fs, cfg.sv_directory, SeqRange(cfg.sv_directory)))
    /\ UNCHANGED <<fs, outfiles, idx>>
    /\ UnitFrame

\* check_if_must_change of the record (lines 95-96, 159-160, 204-205); the
\* result keeps the answer as a run reports it, the path with must_change.
CheckedOf(m) ==
    IF m.e # "OK"
    THEN UnitRaised(m.e, "check_if_must_change") /\ UNCHANGED outfiles
    ELSE /\ outfiles' = [outfiles EXCEPT ![1].must_change = m.v]
         /\ pc' = "checked"
         /\ result' = [NoResult EXCEPT !.status = "checked",
                                       !.paths = {<<outfiles[1].path, m.v>>}]
check_if_must_change ==
    /\ pc = "constructed"
    /\ CheckedOf(must_change_p(fs, outfiles[1]))
    /\ UNCHANGED <<fs, idx>>
    /\ UnitFrame

\* The caller sets must_change itself, as the commit tests do.
SetMustChange(b) ==
    /\ pc = "constructed"
    /\ outfiles' = [outfiles EXCEPT ![1].must_change = b]
    /\ pc' = "checked"
    /\ UNCHANGED <<fs, idx, result>>
    /\ UnitFrame

\* The records whose commit makes several calls that change the tree.
WritesBytes(r) == r.kind = "FileRecord" /\ r.content.tag = "Bytes"
IsLink(r) == r.kind = "LinkRecord"

\* commit with must_change false returns at once (lines 99-100, 163-164,
\* 208-209).
CommitSkipped_Commits ==
    /\ pc = "checked"
    /\ ~outfiles[1].must_change
    /\ LET x == commit(fs, [outfiles[1] EXCEPT !.must_change = TRUE])
       IN  /\ fs' = x.fs
           /\ outfiles' = [outfiles EXCEPT ![1].changed = x.changed]
    /\ UnitReturned(<<>>)
    /\ UNCHANGED idx
    /\ UnitFrame
CommitSkipped ==
    /\ pc = "checked"
    /\ ~outfiles[1].must_change
    /\ UnitReturned(<<>>)
    /\ UNCHANGED <<fs, outfiles, idx>>
    /\ UnitFrame

\* commit of a record that changes the tree in one call: a FileRecord with
\* content None or True, a RemoveThing.
CommitAtOnceOf(x) ==
    /\ fs' = x.fs
    /\ IF x.e # "OK" THEN UnitRaised(x.e, "commit") /\ UNCHANGED outfiles
       ELSE /\ outfiles' = [outfiles EXCEPT ![1].changed = x.changed]
            /\ UnitReturned(<<>>)
CommitAtOnce ==
    /\ pc = "checked"
    /\ outfiles[1].must_change
    /\ ~WritesBytes(outfiles[1]) /\ ~IsLink(outfiles[1])
    /\ CommitAtOnceOf(commit(fs, outfiles[1]))
    /\ UNCHANGED idx
    /\ UnitFrame

\* The order of the calls of FileRecord.commit with bytes (lines 117-125)
\* and of LinkRecord.commit (lines 165-172): the call that follows.
FileAfter_RenameFirst(position) ==
    CASE position = "checked" -> "makedirs"
      [] position = "makedirs" -> "tempfile"
      [] position = "tempfile" -> "write"
      [] position = "write" -> "rename"
      [] position = "rename" -> "chmod"
      [] position = "chmod" -> "returned"
FileAfter(position) ==
    CASE position = "checked" -> "makedirs"
      [] position = "makedirs" -> "tempfile"
      [] position = "tempfile" -> "write"
      [] position = "write" -> "chmod"
      [] position = "chmod" -> "rename"
      [] position = "rename" -> "returned"
LinkAfter_SymlinkFirst(r, position) ==
    CASE position = "checked" ->
            IF r.target # NoTarget THEN "link_makedirs" ELSE "unlink"
      [] position = "link_makedirs" -> "symlink"
      [] position = "symlink" -> "unlink"
      [] position = "unlink" -> "returned"
LinkAfter(r, position) ==
    CASE position = "checked" -> "unlink"
      [] position = "unlink" ->
            IF r.target # NoTarget THEN "link_makedirs" ELSE "returned"
      [] position = "link_makedirs" -> "symlink"
      [] position = "symlink" -> "returned"

\* commit with must_change true goes on to its first call.
CommitEnter ==
    /\ pc = "checked"
    /\ outfiles[1].must_change
    /\ WritesBytes(outfiles[1]) \/ IsLink(outfiles[1])
    /\ pc' = IF IsLink(outfiles[1]) THEN LinkAfter(outfiles[1], "checked")
             ELSE FileAfter("checked")
    /\ UNCHANGED <<fs, outfiles, idx, result>>
    /\ UnitFrame

\* The name of the temporary file number n of the record, and the number
\* in a name.
TempPath(r, n) == Join(Dirname(r.path), <<TempName(n)>>)
TempNumber(name) ==
    CHOOSE n \in 1..(Len(name) + 8) : Basename(name) = TempName(n)

\* What a write that fails part way leaves in the file.
Partial(content) == IF content = "ab" THEN "a" ELSE ""

\* The call at a position of FileRecord.commit with bytes: its errno and
\* the tree it leaves.  A call that the environment makes fail (no space, no
\* permission, an I/O error) raises EIO and leaves the tree as it was, a
\* failed write leaving part of the bytes in the temporary file.
FileCall_NoChmod(tree, r, position, n) ==
    CASE position = "makedirs" -> makedirs_exist_ok(tree, Dirname(r.path))
      [] position = "write" -> write(tree, TempPath(r, n), r.content.b)
      [] position = "chmod" -> [e |-> "OK", fs |-> tree]
      [] position = "rename" -> rename(tree, TempPath(r, n), r.path)
FileCall(tree, r, position, n) ==
    CASE position = "makedirs" -> makedirs_exist_ok(tree, Dirname(r.path))
      [] position = "write" -> write(tree, TempPath(r, n), r.content.b)
      [] position = "chmod" -> chmod(tree, TempPath(r, n), r.mode)
      [] position = "rename" -> rename(tree, TempPath(r, n), r.path)
FileFailure(tree, r, position, n) ==
    IF position = "write"
    THEN [e |-> "EIO",
          fs |-> write(tree, TempPath(r, n), Partial(r.content.b)).fs]
    ELSE [e |-> "EIO", fs |-> tree]

\* The record goes from the call at the position to the next, or raises.
StepOf(position, next, x) ==
    /\ fs' = x.fs
    /\ IF x.e # "OK" THEN UnitRaised(x.e, position) /\ UNCHANGED outfiles
       ELSE IF next = "returned"
       THEN /\ outfiles' = [outfiles EXCEPT ![1].changed = TRUE]
            /\ UnitReturned(<<>>)
       ELSE pc' = next /\ UNCHANGED <<outfiles, result>>

\* makedirs_exist_ok, write, chmod and rename of FileRecord.commit.
FileStep(fail) ==
    /\ pc \in {"makedirs", "write", "chmod", "rename"}
    /\ WritesBytes(outfiles[1])
    /\ StepOf(pc, FileAfter(pc),
              IF fail THEN FileFailure(fs, outfiles[1], pc, idx)
              ELSE FileCall(fs, outfiles[1], pc, idx))
    /\ UNCHANGED idx
    /\ UnitFrame

\* tempfile.NamedTemporaryFile of FileRecord.commit (lines 119-120).
FileTempOf(t) ==
    /\ StepOf("tempfile", FileAfter("tempfile"), [e |-> t.e, fs |-> t.fs])
    /\ idx' = IF t.e = "OK" THEN TempNumber(t.name) ELSE idx
FileTemp(fail) ==
    /\ pc = "tempfile"
    /\ WritesBytes(outfiles[1])
    /\ FileTempOf(IF fail THEN [e |-> "EIO", fs |-> fs, name |-> <<>>]
                  ELSE NamedTemporaryFile(fs, Dirname(outfiles[1].path)))
    /\ UnitFrame

\* The call at a position of LinkRecord.commit (lines 165-172), the unlink
\* with its ENOENT passed over.
EnoentOk(x) == IF x.e = "ENOENT" THEN [e |-> "OK", fs |-> x.fs] ELSE x
LinkCall(tree, r, position) ==
    CASE position = "unlink" -> EnoentOk(unlink(tree, r.path))
      [] position = "link_makedirs" -> makedirs_exist_ok(tree, Dirname(r.path))
      [] position = "symlink" -> symlink(tree, r.target, r.path)
LinkStep(fail) ==
    /\ pc \in {"unlink", "link_makedirs", "symlink"}
    /\ IsLink(outfiles[1])
    /\ StepOf(pc, LinkAfter(outfiles[1], pc),
              IF fail THEN [e |-> "EIO", fs |-> fs]
              ELSE LinkCall(fs, outfiles[1], pc))
    /\ UNCHANGED idx
    /\ UnitFrame

UnitNext ==
    \/ CallFirstDirectory
    \/ ClearDirectories
    \/ check_if_must_change
    \/ \E b \in BOOLEAN : SetMustChange(b)
    \/ CommitSkipped
    \/ CommitAtOnce
    \/ CommitEnter
    \/ \E fail \in BOOLEAN : FileStep(fail)
    \/ \E fail \in BOOLEAN : FileTemp(fail)
    \/ \E fail \in BOOLEAN : LinkStep(fail)

UnitSpec == UnitInit /\ [][UnitNext]_vars

\* ------------------------------------------------------------------
\* Properties of the helpers and the records on their own

\* The one record, and the positions at which its call is over.
TheRecord == outfiles[1]
Over == pc \in {"returned", "raised"}

\* The calls of a commit, made one at a time, leave what commit leaves when
\* none of them is made to fail.
StepwiseCommit ==
    (pc = "returned" /\ outfiles # <<>>) =>
        LET r == [TheRecord EXCEPT !.changed = FALSE]
        IN  /\ commit(fs0, r).e = "OK"
            /\ commit(fs0, r).fs = fs
            /\ commit(fs0, r).changed = TheRecord.changed

\* What first_directory is called with, and the places of the list that
\* hold a real directory: an entry of the tree that is a directory itself.
Directories == cfg.sv_directory
RealDirectory(tree, d) == d \in DOMAIN tree /\ S_ISDIR(tree[d].m)
RealPlaces == {i \in DOMAIN Directories : RealDirectory(fs0, Directories[i])}
FirstPlace == CHOOSE i \in RealPlaces : \A j \in RealPlaces : i <= j
\* lstat of d fails with an error other than ENOENT: d is below a file.
BelowFile(tree, d) ==
    \E a \in Ancestors(d) : a \in DOMAIN tree /\ S_ISREG(tree[a].m)
\* The places first_directory looks at: up to the first real directory.
Visited ==
    {i \in DOMAIN Directories : RealPlaces = {} \/ i <= FirstPlace}

\* C15: first_directory returns the first element of the list, in list
\* order, that exists and is a directory itself by lstat: a missing
\* element, a regular file and a symbolic link, also one to a directory,
\* are passed over; it returns None when no element is one or the list is
\* empty.  It returns whenever no lstat it makes fails otherwise than with
\* ENOENT.
C15_FirstDirectory ==
    (outfiles = <<>> /\ Over) =>
        /\ pc = "returned" =>
              result.paths = {IF RealPlaces = {} THEN <<>>
                              ELSE Directories[FirstPlace]}
        /\ (\A i \in Visited : ~BelowFile(fs0, Directories[i])) =>
              pc = "returned"

\* first_directory passed over a symbolic link to a directory and a regular
\* file and returned the directory after them.
C15_Witness ==
    /\ outfiles = <<>>
    /\ pc = "returned"
    /\ Directories = <<<<"alink">>, <<"afile">>, ServiceRoot>>
    /\ result.paths = {ServiceRoot}

\* The record had its must_change from check_if_must_change, which did not
\* raise, and its commit returned.
CheckedAndCommitted ==
    /\ outfiles # <<>>
    /\ pc = "returned"
    /\ must_change_p(fs0, TheRecord).e = "OK"
    /\ TheRecord.must_change = must_change_p(fs0, TheRecord).v

\* C16: after check_if_must_change and commit of a LinkRecord, whatever its
\* target and dir_ok and whatever was at its path, neither having raised:
\* with a target the path is a symbolic link to exactly the target; without
\* one the path is not a symbolic link, and is a directory only if dir_ok.
C16_LinkPostState ==
    (CheckedAndCommitted /\ IsLink(TheRecord)) =>
        IF TheRecord.target # NoTarget
        THEN IsLinkTo(TheRecord.path, TheRecord.target)
        ELSE \/ Missing(TheRecord.path)
             \/ /\ ~S_ISLNK(fs[TheRecord.path].m)
                /\ S_ISDIR(fs[TheRecord.path].m) => TheRecord.dir_ok

\* What open() of the path finds in a tree: the entry at the path or, for a
\* symbolic link, the entry at its target; <<>> when there is none.
Opened(tree, p) ==
    IF p \notin DOMAIN tree THEN <<>>
    ELSE IF ~S_ISLNK(tree[p].m) THEN tree[p]
    ELSE IF tree[p].t \in DOMAIN tree THEN tree[tree[p].t]
    ELSE <<>>
\* The answer of the decision table for a record and what open() finds:
\* nothing, or a regular file.
Table(r, f) ==
    IF f = <<>> THEN r.content.tag # "None"
    ELSE IF r.content.tag = "None" THEN TRUE
    ELSE IF r.content.tag = "True" THEN f.m # S_IFREG + r.mode
    ELSE ~(f.c = r.content.b /\ f.m = S_IFREG + r.mode)
\* check_if_must_change has just answered.
Detected == outfiles # <<>> /\ pc = "checked" /\ result.status = "checked"

\* C17: check_if_must_change of a FileRecord answers by the table: with no
\* file to read at the path, must_change is (content is not None); with a
\* file and content None it is true; with content True it is (mode differs
\* from the file's settable mode); with bytes it is false exactly when the
\* file holds those bytes and has that settable mode.  It answers whenever
\* there is nothing or a regular file to open, the path not below a regular
\* file.
C17_FileDetection ==
    /\ (Detected /\ TheRecord.kind = "FileRecord") =>
          /\ TheRecord.must_change = Table(TheRecord, Opened(fs0, TheRecord.path))
          /\ result.paths = {<<TheRecord.path, TheRecord.must_change>>}
          /\ fs = fs0
    /\ (outfiles # <<>> /\ pc = "raised" /\ result.msg = "check_if_must_change"
        /\ TheRecord.kind = "FileRecord") =>
          \/ BelowFile(fs0, TheRecord.path)
          \/ /\ Opened(fs0, TheRecord.path) # <<>>
             /\ S_ISDIR(Opened(fs0, TheRecord.path).m)

\* The file holds the bytes of the record with another mode: must_change.
C17_Witness ==
    /\ Detected
    /\ TheRecord = [FileRecord(Join(SvRoot, <<"f">>), 493, Bytes("ab"))
                        EXCEPT !.must_change = TRUE]
    /\ Opened(fs0, TheRecord.path) = FileEntry("ab", 420)

\* commit of a FileRecord with bytes or None and must_change true is over;
\* at its path there was nothing (its parents there or not), a regular file
\* or a symbolic link.
FileCommitted ==
    /\ outfiles # <<>>
    /\ Over
    /\ result.msg # "check_if_must_change"
    /\ TheRecord.kind = "FileRecord"
    /\ TheRecord.content.tag \in {"Bytes", "None"}
    /\ TheRecord.must_change
    /\ ~RealDirectory(fs0, TheRecord.path)
    /\ ~BelowFile(fs0, TheRecord.path)

\* C18: after commit of a FileRecord with must_change true, the path having
\* been missing, missing with its parent directories, a regular file or a
\* symbolic link: with bytes, the path is a file that reads exactly the
\* bytes and has the record's mode as its settable mode, the missing parent
\* directories made; with None, nothing is at the path; changed is true in
\* both cases.  The commit raises only what the environment makes a call
\* raise.  (No directory of the path is a regular file.)
C18_FileCommit ==
    FileCommitted =>
        /\ pc = "raised" => result.exc = "EIO"
        /\ pc = "returned" =>
              /\ TheRecord.changed
              /\ IF TheRecord.content.tag = "None"
                 THEN Missing(TheRecord.path)
                 ELSE /\ IsFileWith(TheRecord.path, TheRecord.content.b,
                                    TheRecord.mode)
                      /\ \A a \in Ancestors(TheRecord.path) :
                            RealDirectory(fs, a)

\* The bytes were written below two directories that were missing.
C18_Witness ==
    /\ FileCommitted
    /\ pc = "returned"
    /\ TheRecord.path = Join(SvRoot, <<"d1", "d2", "f">>)
    /\ Join(SvRoot, <<"d1">>) \notin DOMAIN fs0
    /\ TheRecord.content = Bytes("ab")
    /\ IsFileWith(TheRecord.path, "ab", TheRecord.mode)

\* What a tree holds at the path of the record and below it.
At(tree) == [p \in Subtree(tree, TheRecord.path) |-> tree[p]]
\* The temporary file of the commit.
Temp == TempPath(TheRecord, idx)
\* FileRecord.commit with bytes and must_change true is at one of its calls
\* or over.
Writing ==
    /\ outfiles # <<>>
    /\ WritesBytes(TheRecord)
    /\ TheRecord.must_change
    /\ pc \in {"makedirs", "tempfile", "write", "chmod", "rename",
               "returned", "raised"}
    /\ result.msg # "check_if_must_change"

\* C19: FileRecord.commit with bytes makes a temporary file next to the
\* path, writes the bytes to it, sets its mode and renames it over the
\* path, in this order; so at every call of the commit, and after any call
\* has failed, the path holds all of what it held before the commit or the
\* complete bytes with the record's mode: never part of the bytes, never
\* the bytes with another mode.
C19_AtomicReplace ==
    Writing =>
        /\ \/ At(fs) = At(fs0)
           \/ IsFileWith(TheRecord.path, TheRecord.content.b, TheRecord.mode)
        /\ pc \in {"write", "chmod", "rename"} =>
              /\ Temp \in DOMAIN fs
              /\ Dirname(Temp) = Dirname(TheRecord.path)
              /\ At(fs) = At(fs0)
        /\ pc \in {"chmod", "rename"} => fs[Temp].c = TheRecord.content.b
        /\ pc = "rename" => IsFileWith(Temp, TheRecord.content.b, TheRecord.mode)
        /\ pc = "returned" =>
              /\ IsFileWith(TheRecord.path, TheRecord.content.b, TheRecord.mode)
              /\ Temp \notin DOMAIN fs

\* The write failed part way: the temporary file holds part of the bytes,
\* the path the file it held before.
C19_Witness ==
    /\ Writing
    /\ pc = "raised"
    /\ result.msg = "write"
    /\ TheRecord.path = Join(SvRoot, <<"f">>)
    /\ TheRecord.content = Bytes("ab")
    /\ IsFileWith(Temp, "a", 384)
    /\ IsFileWith(TheRecord.path, "", 420)

\* LinkRecord.commit with must_change true is at one of its calls or over.
Linking ==
    /\ outfiles # <<>>
    /\ IsLink(TheRecord)
    /\ TheRecord.must_change
    /\ pc \in {"unlink", "link_makedirs", "symlink", "returned", "raised"}
    /\ result.msg # "check_if_must_change"

\* C20: LinkRecord.commit with must_change true first removes what is at
\* the path, a missing path being passed over, and only then, if the record
\* has a target, makes the symbolic link: between the two nothing is at the
\* path, and when the making of the link fails the path stays absent, the
\* old link is not put back.
C20_LinkSwap ==
    Linking =>
        /\ pc = "unlink" => At(fs) = At(fs0)
        /\ (pc = "raised" /\ result.msg = "unlink") => At(fs) = At(fs0)
        /\ pc \in {"link_makedirs", "symlink"} =>
              Missing(TheRecord.path) /\ TheRecord.target # NoTarget
        /\ (pc = "raised" /\ result.msg \in {"link_makedirs", "symlink"}) =>
              Missing(TheRecord.path)
        /\ pc = "returned" =>
              /\ TheRecord.changed
              /\ IF TheRecord.target # NoTarget
                 THEN IsLinkTo(TheRecord.path, TheRecord.target)
                 ELSE Missing(TheRecord.path)

\* The path held a link to another target; the unlink removed it and the
\* symlink failed: nothing is at the path.
C20_Witness ==
    /\ Linking
    /\ pc = "raised"
    /\ result.msg = "symlink"
    /\ TheRecord.path \in DOMAIN fs0
    /\ fs0[TheRecord.path] = LinkEntry(LsbTarget)
    /\ TheRecord.target = UserTarget
    /\ Missing(TheRecord.path)

\* check_if_must_change of the record has answered or raised.
DetectionOver ==
    /\ outfiles # <<>>
    /\ \/ Detected
       \/ pc = "raised" /\ result.msg = "check_if_must_change"
\* The entry at the path itself, no link followed, is of the kind the
\* RemoveThing expects: a regular file for rm, a directory for rmdir.
ExpectedKind(tree, r) ==
    /\ r.path \in DOMAIN tree
    /\ IF r.stat_type = "S_ISREG" THEN S_IFMT(tree[r.path].m) = S_IFREG
       ELSE S_IFMT(tree[r.path].m) = S_IFDIR

\* C21: check_if_must_change of a RemoveThing sets must_change false when
\* nothing is at the path and true when the entry there is of the expected
\* kind (a regular file for rm, a directory for rmdir); for an entry of any
\* other kind it raises NotAThingError.  The kind is that of the entry
\* itself: a symbolic link, wherever it leads, is a mismatch for both.
\* (No directory of the path is a regular file.)
C21_RemoveDetection ==
    (DetectionOver /\ TheRecord.kind = "RemoveThing"
     /\ ~BelowFile(fs0, TheRecord.path)) =>
        /\ fs = fs0
        /\ IF TheRecord.path \notin DOMAIN fs0
           THEN Detected /\ ~TheRecord.must_change
           ELSE IF ExpectedKind(fs0, TheRecord)
           THEN Detected /\ TheRecord.must_change
           ELSE pc = "raised" /\ result.exc = "NotAThingError"
        /\ (TheRecord.path \in DOMAIN fs0 /\ S_ISLNK(fs0[TheRecord.path].m))
              => pc = "raised"

\* rmdir of a symbolic link to a directory raised NotAThingError.
C21_Witness ==
    /\ DetectionOver
    /\ TheRecord.kind = "RemoveThing"
    /\ TheRecord.stat_type = "S_ISDIR"
    /\ TheRecord.path \in DOMAIN fs0
    /\ fs0[TheRecord.path] = LinkEntry(SvRoot)
    /\ result.exc = "NotAThingError"

\* A record is changed only if it had to change, and a commit that is over
\* for a record with must_change false has left the tree as it was.
GatedState ==
    \A i \in DOMAIN outfiles :
        /\ outfiles[i].changed => outfiles[i].must_change
        /\ (Over /\ ~outfiles[i].must_change) =>
              fs = fs0 /\ ~outfiles[i].changed
\* No step of a commit changes must_change.
GatedStep ==
    pc \notin {"idle", "first_directory", "constructed"} =>
        /\ DOMAIN outfiles' = DOMAIN outfiles
        /\ \A i \in DOMAIN outfiles :
              outfiles'[i].must_change = outfiles[i].must_change

\* C22: commit of a FileRecord, a LinkRecord or a RemoveThing with
\* must_change false makes no call that touches the tree and leaves changed
\* false, whatever is at the path; so changed is true only for a record
\* whose must_change is true, and commit never changes must_change.
C22_CommitGated == [](GatedState) /\ [][GatedStep]_vars

\* A record whose file holds other bytes than it wants was committed with
\* must_change false: the file is as it was.
C22_Witness ==
    /\ outfiles # <<>>
    /\ pc = "returned"
    /\ ~TheRecord.must_change
    /\ TheRecord.content = Bytes("ab")
    /\ Opened(fs0, TheRecord.path) = FileEntry("", 420)
    /\ fs = fs0

ModeOnlyCommitted ==
    /\ outfiles # <<>>
    /\ Over
    /\ result.msg # "check_if_must_change"
    /\ TheRecord.kind = "FileRecord"
    /\ TheRecord.content = ContentTrue
    /\ TheRecord.must_change
    /\ ~BelowFile(fs0, TheRecord.path)

Raising == {i \in DOMAIN outfiles : must_change_p(fs0, outfiles[i]).e # "OK"}

\* C25: _main calls check_if_must_change of every record before commit of
\* any, and detection reads only.  When the commit loop starts the tree is
\* the tree the run started from and every record has the must_change
\* detection found on that tree; when the detection of a record raises
\* (PathAlreadyExistsError, NotAThingError, an errno) the run fails with
\* the first such exception, no record committed, the tree as at the start.
C25_TwoPhases ==
    /\ (Started /\ pc = "commit") =>
          /\ Raising = {}
          /\ \A i \in DOMAIN outfiles :
                outfiles[i].must_change = must_change_p(fs0, outfiles[i]).v
          /\ idx = 1 => fs = fs0
    /\ (Done /\ Raising # {}) =>
          /\ result.status = "failed"
          /\ \E i \in Raising :
                /\ \A j \in Raising : i <= j
                /\ result.exc = must_change_p(fs0, outfiles[i]).e
          /\ \A i \in DOMAIN outfiles : ~outfiles[i].changed
          /\ fs = fs0

\* The run file had to be written and a stray directory made the detection
\* of a later record raise: the run failed with nothing written.
C25_Witness ==
    /\ Done
    /\ result.exc = "NotAThingError"
    /\ Len(outfiles) > 1
    /\ must_change_p(fs0, outfiles[1]).e = "OK"
    /\ must_change_p(fs0, outfiles[1]).v
    /\ outfiles[1].path \notin DOMAIN fs
    /\ fs = fs0

\* The tree after the commits of the first k records of the run, and what
\* the commit of record k does on the tree the records before it left.
RECURSIVE TreeAfter(_)
CommitAt(k) == commit(TreeAfter(k - 1), outfiles[k])
TreeAfter(k) == IF k = 0 THEN fs0 ELSE CommitAt(k).fs
\* A real run got into its commit loop and is over.
CommitLoopOver ==
    /\ Done
    /\ ~result.check
    /\ outfiles # <<>>
    /\ Raising = {}
    /\ \E i \in DOMAIN outfiles : outfiles[i].must_change

\* C26: when commit of the k-th record raises in a real run, what the
\* records before it did stays, no record after it is committed, and the
\* run fails: it reports success only when no commit raised.
C26_NoRollback ==
    CommitLoopOver =>
        IF \A k \in DOMAIN outfiles : CommitAt(k).e = "OK"
        THEN /\ result.status = "ok"
             /\ fs = TreeAfter(Len(outfiles))
        ELSE \E k \in DOMAIN outfiles :
                /\ \A j \in 1..(k - 1) :
                      /\ CommitAt(j).e = "OK"
                      /\ outfiles[j].changed = outfiles[j].must_change
                /\ CommitAt(k).e # "OK"
                /\ result.status = "failed"
                /\ result.exc = CommitAt(k).e
                /\ fs = CommitAt(k).fs
                /\ \A j \in k..Len(outfiles) : ~outfiles[j].changed

\* The run file was written, then the commit of a later record raised: the
\* run failed and the run file is there.
C26_Witness ==
    /\ CommitLoopOver
    /\ result.status = "failed"
    /\ outfiles[1].changed
    /\ outfiles[1].path \notin DOMAIN fs0
    /\ IsFileWith(outfiles[1].path, cfg.runscript, exe_mode(cfg.umask))

\* The place of a record in the order of construction, from its path below
\* the service directory base and the parameters: 1 run, 2 log, 3 extra
\* files, 4 extra scripts, 5 env, 6 down, 7 supervise, 8 log/supervise,
\* 9 the service link, 10 the init.d link, 11 to 13 the cleanup of the
\* service directory, of log and of env.
Below(base, p) ==
    IF IsPrefix(base, p) THEN SubSeq(p, Len(base) + 1, Len(p)) ELSE <<>>
RankIn(r, rel, service) ==
    IF r.kind = "RemoveThing" /\ r.stat_type = "S_ISREG"
    THEN (IF Len(rel) = 1 THEN 11 ELSE IF rel[1] = "log" THEN 12 ELSE 13)
    ELSE IF r.path = service THEN 9
    ELSE IF rel = <<>> THEN 10
    ELSE IF rel = <<"run">> THEN 1
    ELSE IF \E i \in DOMAIN cfg.extra_files : cfg.extra_files[i].name = rel
    THEN 3
    ELSE IF \E i \in DOMAIN cfg.extra_scripts : cfg.extra_scripts[i].name = rel
    THEN 4
    ELSE IF rel \in {<<"log">>, <<"log", "run">>} THEN 2
    ELSE IF rel = <<"log", "supervise">> THEN 8
    ELSE IF rel[1] = "env" THEN 5
    ELSE IF rel = <<"down">> THEN 6
    ELSE 7
Rank(i, base, service) ==
    RankIn(outfiles[i], Below(base, outfiles[i].path), service)
InOrder(base, service) ==
    /\ Rank(1, base, service) = 1
    /\ \A i, j \in DOMAIN outfiles :
          i < j => Rank(i, base, service) <= Rank(j, base, service)
    /\ \A k \in {1, 2, 6, 7, 8, 9} :
          \E i \in DOMAIN outfiles : Rank(i, base, service) = k

\* C27: the records are committed in the order they were constructed in:
\* run, log (log/run or the removal of log), the extra files, the extra
\* scripts, env (its files or its removal), down, the supervise link, the
\* log supervise link, the service link, the init.d link, then the cleanup
\* removals in the order of the managed directories; detection goes through
\* them in the same order.
C27_Order ==
    (Started /\ outfiles # <<>>) =>
        /\ InOrder(SvPath(<<>>), ServicePath)
        /\ pc = "commit" =>
              \A j \in DOMAIN outfiles :
                  outfiles[j].changed = (j < idx /\ outfiles[j].must_change)
        /\ (pc = "idle" /\ Raising # {}) =>
              \E i \in Raising :
                  /\ \A j \in Raising : i <= j
                  /\ result.exc = must_change_p(fs0, outfiles[i]).e

\* The commit loop has written an extra file and is past it, a cleanup
\* removal that must change still to come at the end.
C27_Witness ==
    /\ Started
    /\ pc = "commit"
    /\ Len(outfiles) > 3
    /\ idx = 4
    /\ cfg.extra_files # <<>>
    /\ outfiles[3].kind = "FileRecord"
    /\ outfiles[3].changed
    /\ outfiles[Len(outfiles)].kind = "RemoveThing"
    /\ outfiles[Len(outfiles)].stat_type = "S_ISREG"
    /\ outfiles[Len(outfiles)].must_change
    /\ ~outfiles[Len(outfiles)].changed

\* The records the cleanup pass appended: rm() is called nowhere else.
Strays ==
    {i \in DOMAIN outfiles :
        outfiles[i].kind = "RemoveThing" /\ outfiles[i].stat_type = "S_ISREG"}
Apart(declared, managed) ==
    /\ \A i, j \in DOMAIN outfiles : i # j => outfiles[i].path # outfiles[j].path
    /\ \A i \in DOMAIN outfiles \ Strays : outfiles[i].path \in declared
    /\ \A i \in Strays :
          /\ outfiles[i].path \notin declared \cup managed
          /\ Dirname(outfiles[i].path) \in managed

\* C28: the cleanup pass appends a removal only for a child of a managed
\* directory that is neither the path of a declared record nor a managed
\* directory itself, so the paths of the records of a run are pairwise
\* distinct and no path with a declared record is also removed by cleanup.
C28_CleanupApart ==
    (Started /\ outfiles # <<>>) => Apart(DeclaredPaths, ManagedDirs)

\* A run with a supervise link asked for and already in place, next to a
\* stray file the cleanup removes.
C28_Witness ==
    /\ Started
    /\ outfiles # <<>>
    /\ Strays # {}
    /\ cfg.supervise_link # None
    /\ \E i \in DOMAIN outfiles \ Strays :
          /\ outfiles[i].kind = "LinkRecord"
          /\ outfiles[i].path \in DOMAIN fs0
          /\ outfiles[i].path = Join(Dirname(outfiles[1].path), <<"supervise">>)

\* What the system call of a detection answers on the tree it reads:
\* open() in hash_file, readlink, lstat.
DetectionErrno(tree, r) ==
    IF r.kind = "FileRecord" THEN hash_file(tree, r.path).e
    ELSE IF r.kind = "LinkRecord" THEN readlink(tree, r.path).e
    ELSE lstat(tree, r.path).e
\* The errors a detection takes for an answer.
DetectionBenign(r) ==
    IF r.kind = "LinkRecord" THEN {"OK", "ENOENT", "EINVAL"} ELSE {"OK", "ENOENT"}
DetectionErrors ==
    DetectionOver =>
        /\ DetectionErrno(fs0, TheRecord) \notin DetectionBenign(TheRecord) =>
              /\ pc = "raised"
              /\ result.exc = DetectionErrno(fs0, TheRecord)
        /\ DetectionErrno(fs0, TheRecord) \in {"OK", "ENOENT"} =>
              (Detected \/ result.exc = "NotAThingError")
\* FileRecord.commit with content None, over.
DeleteErrorsOf(u) ==
    IF u.e \in {"OK", "ENOENT"}
    THEN pc = "returned" /\ TheRecord.changed /\ fs = u.fs
    ELSE pc = "raised" /\ result.exc = u.e /\ fs = fs0
DeleteErrors ==
    (outfiles # <<>> /\ Over /\ result.msg # "check_if_must_change"
     /\ TheRecord.kind = "FileRecord" /\ TheRecord.content = ContentNone
     /\ TheRecord.must_change) => DeleteErrorsOf(unlink(fs0, TheRecord.path))
\* A step of a commit fails for a reason of the environment.
Injected == pc' = "raised" /\ result'.exc = "EIO"
\* The step of LinkRecord.commit that deletes.
UnlinkStepOf(u) ==
    \/ Injected /\ fs' = fs
    \/ /\ u.e \in {"OK", "ENOENT"}
       /\ pc' = LinkAfter(TheRecord, "unlink")
       /\ fs' = u.fs
       /\ pc' = "returned" => outfiles'[1].changed
    \/ /\ u.e \notin {"OK", "ENOENT"}
       /\ pc' = "raised" /\ result'.exc = u.e /\ fs' = fs
UnlinkStep == pc = "unlink" => UnlinkStepOf(unlink(fs, TheRecord.path))
\* The step of either commit that makes the directories.
MakedirsStepOf(m) ==
    \/ Injected /\ fs' = fs
    \/ /\ m.e \in {"OK", "EEXIST"}
       /\ pc' = (IF pc = "makedirs" THEN "tempfile" ELSE "symlink")
       /\ fs' = m.fs
    \/ /\ m.e \notin {"OK", "EEXIST"}
       /\ pc' = "raised" /\ result'.exc = m.e /\ fs' = m.fs
MakedirsStep ==
    pc \in {"makedirs", "link_makedirs"} =>
        MakedirsStepOf(makedirs(fs, Dirname(TheRecord.path)))
\* The cleanup pass: the places of the list that cannot be listed, and what
\* is listed in the others.
Unlistable(ds) == {i \in DOMAIN ds : listdir(fs, ds[i]).e \notin {"OK", "ENOENT"}}
Listed(ds) ==
    UNION {{Join(ds[i], <<n>>) : n \in listdir(fs, ds[i]).names} : i \in DOMAIN ds}
ListingStepOf(ds, bad) ==
    /\ fs' = fs
    /\ IF bad = {}
       THEN pc' = "cleaned" /\ result'.paths = Listed(ds) \ SeqRange(ds)
       ELSE /\ pc' = "cleanup_raised"
            /\ \E i \in bad : /\ \A j \in bad : i <= j
                              /\ result'.exc = listdir(fs, ds[i]).e
ListingStep ==
    pc = "cleanup" => ListingStepOf(cfg.sv_directory, Unlistable(cfg.sv_directory))

\* C29: ENOENT from the delete of FileRecord.commit and of LinkRecord.commit,
\* ENOENT from listing a managed directory and EEXIST from makedirs are
\* taken for success and the call goes on; every other error of these calls
\* is raised, and so is every error of the call a detection makes (open in
\* hash_file, readlink, lstat) other than ENOENT, and EINVAL for readlink.
C29_BenignAndFatal ==
    /\ [](DetectionErrors /\ DeleteErrors)
    /\ [][UnlinkStep /\ MakedirsStep /\ ListingStep]_vars

\* The cleanup pass found the first directory missing, went on to the
\* second and listed what is in it.
C29_Witness ==
    /\ pc = "cleaned"
    /\ Len(cfg.sv_directory) = 2
    /\ listdir(fs, cfg.sv_directory[1]).e = "ENOENT"
    /\ result.paths # {}

\* The record of the run for the service link, and the service link in the
\* tree as that record wants it.
ServiceRecords(service) == {i \in DOMAIN outfiles : outfiles[i].path = service}
Registered(tree, service) ==
    /\ service \in DOMAIN tree
    /\ S_ISLNK(tree[service].m)
    /\ \E i \in ServiceRecords(service) :
          outfiles[i].target # NoTarget /\ tree[service].t = outfiles[i].target
\* Reading the path gives the bytes of the record.
ReadsBytes(tree, r) ==
    /\ ~hash_file(tree, r.path).none
    /\ hash_file(tree, r.path).hash = sha256(r.content.b)
\* The records that write a file.
FileRecords == {i \in DOMAIN outfiles : WritesBytes(outfiles[i])}
Follows(service) ==
    /\ \A s \in ServiceRecords(service) : \A i \in FileRecords :
          /\ i < s
          /\ (pc = "commit" /\ idx > s) => idx > i
    /\ (Registered(fs, service) /\ ~Registered(fs0, service)) =>
          /\ 1 \in FileRecords
          /\ Basename(outfiles[1].path) = "run"
          /\ ReadsBytes(fs, outfiles[1])

\* C30: in a real run the service link is committed after run and after
\* every other declared file record, so at no point of a run does a service
\* link that this run made point at a service directory whose run file does
\* not read as the bytes asked for.
C30_RegistrationFollows ==
    (Started /\ ~result.check /\ outfiles # <<>>) => Follows(ServicePath)

\* The commit loop has just made the service link, the run file written
\* before it by this run.
C30_Witness ==
    /\ Started
    /\ pc = "commit"
    /\ outfiles # <<>>
    /\ outfiles[1].changed
    /\ Registered(fs, outfiles[idx - 1].path)
    /\ outfiles[idx - 1].changed
    /\ outfiles[idx - 1].kind = "LinkRecord"
    /\ Dirname(outfiles[idx - 1].path) # Dirname(outfiles[1].path)

\* The immediate children of the managed directories, as listing them on
\* the tree the run found gives them, that no record declares and that are
\* a directory or a symbolic link themselves.
Listable(managed) == {d \in managed : listdir(fs0, d).e = "OK"}
NotAFile(p) ==
    lstat(fs0, p).e = "OK" /\ (S_ISDIR(lstat(fs0, p).m) \/ S_ISLNK(lstat(fs0, p).m))
StrayEntries(declared, managed) ==
    {p \in UNION {{Join(d, <<n>>) : n \in listdir(fs0, d).names} :
                      d \in Listable(managed)} :
        p \notin declared \cup managed /\ NotAFile(p)}
FatalStrays(entries) ==
    entries # {} =>
        /\ pc = "idle"
        /\ result.status = "failed"
        /\ fs = fs0
        /\ \A i \in DOMAIN outfiles : ~outfiles[i].changed
        /\ outfiles # <<>> =>
              /\ result.msg = "unhandled exception"
              /\ \A p \in entries : \E i \in Strays \cap Raising :
                    /\ outfiles[i].path = p
                    /\ must_change_p(fs0, outfiles[i]).e = "NotAThingError"

\* C31: when a managed directory (the service directory, its log or env
\* when configured) has an immediate child that no record declares and
\* that is a directory or a symbolic link, the removal the cleanup builds
\* for it raises NotAThingError in detection: the run fails and nothing in
\* the tree is changed, also when other records must change.
C31_StrayNotAFile ==
    (Started /\ Declares(fs0, cfg)) =>
        FatalStrays(StrayEntries(DeclaredPaths, ManagedDirs))

\* A real run found the run file in need of a change and a stray directory
\* next to it: it failed with NotAThingError and wrote nothing.
C31_Witness ==
    /\ RealDone
    /\ outfiles # <<>>
    /\ result.exc = "NotAThingError"
    /\ must_change_p(fs0, outfiles[1]).e = "OK"
    /\ must_change_p(fs0, outfiles[1]).v
    /\ \E i \in Strays :
          /\ outfiles[i].path \in DOMAIN fs0
          /\ S_ISDIR(fs0[outfiles[i].path].m)
    /\ fs = fs0

----------------------------------------------------------------------------
(* Runs on a tree the module has already worked on: the parameters are the *)
(* defaults with one of them changed, the tree is what a real run with     *)
(* these parameters leaves of the initial tree.  The parameters stay; the  *)
(* tree changes by the runs and by an outside modification.                *)

\* The tree a real run of _main leaves (lines 337-346).
RECURSIVE CommitTree(_, _, _)
CommitTreeOf(recs, i, r) ==
    IF r.e # "OK" THEN r.fs ELSE CommitTree(r.fs, recs, i + 1)
CommitTree(tree, recs, i) ==
    IF i > Len(recs) THEN tree ELSE CommitTreeOf(recs, i, commit(tree, recs[i]))
RunTreeDetected(tree, det) ==
    IF det.e # "OK" \/ ~AnyMustChange(det.outfiles) THEN tree
    ELSE CommitTree(tree, det.outfiles, 1)
RunTreePlanned(tree, plan) ==
    IF plan.msg # "" THEN tree
    ELSE RunTreeDetected(tree, Detect(tree, plan.outfiles))
RunTree(tree, c) == RunTreePlanned(tree, Plan(tree, c))

SettledCfgs ==
    UNION {{[DefaultCfg EXCEPT ![k] = v] : v \in ParamValues[k]} :
              k \in DOMAIN ParamValues}
SettledStart(c, tree) ==
    /\ fs = tree
    /\ cfg = c
    /\ check_mode = FALSE
    /\ pc = "idle"
    /\ outfiles = <<>>
    /\ idx = 0
    /\ result = NoResult
    /\ fs0 = tree
    /\ prev = NoResult
    /\ same = FALSE
    /\ dirty = FALSE
    /\ runs = 0
    /\ changes = 0
    /\ outside = 0
SettledInit == \E c \in SettledCfgs : SettledStart(c, RunTree(InitFs, c))
SettledNext ==
    \/ \E p \in OutsidePaths : \E kind \in OutsideKinds : Outside(p, kind)
    \/ \E chk \in BOOLEAN : Begin(chk)
    \/ CommitStep
    \/ Finish
SettledSpec == SettledInit /\ [][SettledNext]_vars

\* Detection on the tree the run found answers false for every record.
NothingToChange ==
    /\ outfiles # <<>>
    /\ \A i \in DOMAIN outfiles :
          /\ must_change_p(fs0, outfiles[i]).e = "OK"
          /\ ~must_change_p(fs0, outfiles[i]).v
NoChangeRun ==
    /\ pc = "idle"
    /\ result.status = "ok"
    /\ ~result.changed
    /\ fs = fs0
    /\ \A i \in DOMAIN outfiles : ~outfiles[i].changed

\* C32: when detection finds must_change false for every record, the run
\* reports changed=false, commits nothing and leaves the tree as it was, in
\* real mode as in check mode; so a run that follows a run that reported
\* changed=false, with the same parameters and the tree as that run left
\* it, reports changed=false too.
C32_Fixpoint ==
    /\ (Started /\ NothingToChange) => NoChangeRun
    /\ (Successive /\ prev.status = "ok" /\ ~prev.changed) => NoChangeRun

\* A real run that follows a check run that reported changed=false, a log
\* service among its records: it reports changed=false as well.
C32_Witness ==
    /\ Successive
    /\ ~check_mode
    /\ prev.check
    /\ prev.status = "ok"
    /\ ~prev.changed
    /\ cfg.log_runscript # None
    /\ NothingToChange
    /\ NoChangeRun

====
